---------------------------- MODULE Spec2Model ----------------------------
(***************************************************************************)
(* A model of the replacement engine of the PII sanitizer:                  *)
(*   - the cross-run splicer of src/new/PII/function.py ("NP") and of       *)
(*     src/function_app.py ("FA"), with FA's fallback pass and statistics;  *)
(*   - the page redaction loops sanitize_pdf_bytes / sanitize_pdf_in_place; *)
(*   - the regex safety net _apply_regex_safety_net;                        *)
(*   - hyperlink unwrapping (_unwrap_hyperlinks), raw candidate lists and   *)
(*     failing library calls (SpecEdge).                                    *)
(* Text is a sequence of one-character strings.  Offsets into a text are    *)
(* 0-based, as in the Python source: the character at offset i is t[i+1].   *)
(***************************************************************************)
EXTENDS Integers, Sequences, FiniteSets, TLC

VARIABLES
    op,        \* the sanitize operation called: "docx" or "pdf" ("net": the safety net alone)
    impl,      \* "NP" = src/new/PII/function.py, "FA" = src/function_app.py
    raw,       \* the replacements argument of the sanitize call
    repl,      \* repl_list / sorted_replacements
    pc,        \* position of the sanitize call
    doc,       \* the flowing document: a sequence of paragraphs, each a sequence of runs
    pi,        \* index of the paragraph being processed
    ri,        \* index into repl of the entry being processed
    iter,      \* loop bodies executed for the current entry (iteration / 50 - max_iter)
    count,     \* count / total_replacements of the current paragraph
    stats,     \* the statistics dict of apply_replacements_to_document
    doc0,      \* history: the document as it was passed in
    prov,      \* history: for the current paragraph, the origin of every character
    log,       \* history: the splices done on the current paragraph
    last,      \* history: the latest splice, with the runs it found
    hit,       \* history: entries that used all MaxIter iterations on the current paragraph
    pages,     \* the fixed-layout document: the rendered text of each page
    pn,        \* index of the page being processed
    ei,        \* index into repl of the entry being processed on the page
    instances, \* instances / text_instances: the rectangles kept from the search
    ii,        \* index into instances of the rectangle being annotated
    annots,    \* redaction annotations added to the page and not yet applied
    total_redactions, \* total_redactions of sanitize_pdf_in_place
    scrubbed,  \* set_metadata({}) and scrub(...) have run on the document
    pages0,    \* history: the pages as they were passed in
    pprov,     \* history: for the current page, the origin of every character
    plog,      \* history: the searches that found something on the current page
    full_text, \* the full_text argument of _apply_regex_safety_net
    replacements,  \* its replacements argument, a list the call appends to
    covered,   \* covered
    email_counter, \* email_counter
    phone_counter, \* phone_counter
    id_counter,    \* id_counter
    call,      \* 1: the first call; 2: the call on the list the first call returned
    given,     \* history: the list as passed to the first call
    first,     \* history: the list the first call returned
    wrap,      \* for each paragraph, the children of its element: a slot for every
               \* direct run (the runs themselves are in doc) and the hyperlinks
    wrap0,     \* history: wrap as it was passed in
    tried,     \* history: the <<container or page, entry>> pairs searched so far
    skipped,   \* history: the <<page, entry, rectangle>> whose add_redact_annot raised
    font_name, \* the font_name argument of _map_to_base14_font
    flags,     \* its flags argument
    fontname,  \* the face it returns
    spans,     \* the spans of page.get_text("dict"), in the order of the three loops
    inst_rect, \* inst / rect: a rectangle the page search returned
    props,     \* props: what _get_text_properties_at_rect returns for rect
    redact     \* the arguments of the add_redact_annot call for rect

docVars == <<doc, pi, ri, iter, count, stats, doc0, prov, log, last, hit>>

pdfVars == <<pages, pn, ei, instances, ii, annots, total_redactions, scrubbed,
             pages0, pprov, plog>>

netVars == <<full_text, replacements, covered, email_counter, phone_counter, id_counter,
             call, given, first>>

callVars == <<op, impl, raw, repl, pc>>

auxVars == <<wrap, wrap0, tried, skipped>>

fontVars == <<font_name, flags, fontname, spans, inst_rect, props, redact>>

vars == <<callVars, docVars, pdfVars, netVars, auxVars, fontVars>>

-----------------------------------------------------------------------------
(* Bounds of the model *)

\* longest text of a document
MaxLen == 3
\* most entries in the replacements argument
MaxEntries == 2

\* characters of document texts
Alphabet == {"a", "A", " "}

-----------------------------------------------------------------------------
(* Characters and strings *)

LowerLetters == {"a", "b", "v", "x"}
UpperLetters == {"A", "B", "V", "X"}
Digits == {"0", "1", "2", "3", "4", "5", "6", "7", "8", "9"}

\* str.lower() on one character; also the case folding of re.IGNORECASE
ToLower(c) ==
    CASE c = "A" -> "a"
      [] c = "B" -> "b"
      [] c = "V" -> "v"
      [] c = "X" -> "x"
      [] OTHER -> c

Lower(t) == [k \in 1..Len(t) |-> ToLower(t[k])]

\* \w of the regex engine
IsWordChar(c) == c \in LowerLetters \cup UpperLetters \cup Digits \cup {"_"}

\* t[i:j] of Python, for 0 <= i, j
Slice(t, i, j) ==
    LET jj == IF j > Len(t) THEN Len(t) ELSE j
    IN  IF i >= jj THEN <<>> ELSE SubSeq(t, i + 1, jj)

\* all texts over a set of characters, up to a length
TextsUpTo(chars, n) == UNION {[1..k -> chars] : k \in 0..n}

RECURSIVE ConcatAll(_)
ConcatAll(ts) == IF ts = <<>> THEN <<>> ELSE Head(ts) \o ConcatAll(Tail(ts))

Min(S) == CHOOSE x \in S : \A y \in S : x <= y
Max(S) == CHOOSE x \in S : \A y \in S : x >= y

-----------------------------------------------------------------------------
(* Pattern matching: _needs_word_boundary, _build_search_pattern, re.search *)

\* len(original) <= 3 in _needs_word_boundary
ShortTokenLen == 3

\* max_iter / max_iterations of the splicer loop
MaxIter == 50

\* the test without original.isupper()
NeedsWordBoundaryAnyCase(original) ==
    /\ Len(original) <= ShortTokenLen
    /\ Len(original) >= 1
    /\ \A k \in 1..Len(original) : original[k] \in UpperLetters \cup LowerLetters

NeedsWordBoundary(original) ==
    /\ Len(original) <= ShortTokenLen
    /\ Len(original) >= 1
    /\ \A k \in 1..Len(original) : original[k] \in UpperLetters

\* the escaped original matches at offset s, ignoring case
MatchesAtCI(original, t, s) ==
    /\ s + Len(original) <= Len(t)
    /\ \A k \in 1..Len(original) : ToLower(t[s + k]) = ToLower(original[k])

\* \b at offset p of t
WordBoundaryAt(t, p) ==
    LET before == p >= 1 /\ IsWordChar(t[p])
        after  == p < Len(t) /\ IsWordChar(t[p + 1])
    IN  before # after

\* \b<escaped>\b matches at offset s, case-sensitively
MatchesAtWB(original, t, s) ==
    /\ s + Len(original) <= Len(t)
    /\ \A k \in 1..Len(original) : t[s + k] = original[k]
    /\ WordBoundaryAt(t, s)
    /\ WordBoundaryAt(t, s + Len(original))

\* the pattern _build_search_pattern returns: "wb" = (rf'\b{escaped}\b', 0),
\* "ci" = (escaped, re.IGNORECASE)
BuildSearchPattern(original) ==
    IF NeedsWordBoundary(original) THEN "wb" ELSE "ci"

\* the pattern each splicer searches with
PatternOf(im, original) ==
    IF im = "NP" THEN BuildSearchPattern(original) ELSE "ci"

MatchesAt(kind, original, t, s) ==
    IF kind = "wb" THEN MatchesAtWB(original, t, s) ELSE MatchesAtCI(original, t, s)

MatchStarts(kind, original, t) ==
    {s \in 0..Len(t) : MatchesAt(kind, original, t, s)}

\* re.search: offset of the leftmost match, -1 for None
ReSearch(kind, original, t) ==
    LET S == MatchStarts(kind, original, t)
    IN  IF S = {} THEN -1 ELSE Min(S)

-----------------------------------------------------------------------------
(* Runs of a paragraph; one splice *)

RunTexts(runs) == [k \in 1..Len(runs) |-> runs[k].text]

\* full_text
FullText(runs) == ConcatAll(RunTexts(runs))

\* run_boundaries: (start, end) of run k in full_text
RECURSIVE RunStart(_, _)
RunStart(runs, k) == IF k = 1 THEN 0 ELSE RunStart(runs, k - 1) + Len(runs[k - 1].text)

RunEnd(runs, k) == RunStart(runs, k) + Len(runs[k].text)

\* affected / affected_runs: the runs with start < match_end and end > match_start
Affected(runs, ms, me) ==
    {k \in 1..Len(runs) : RunStart(runs, k) < me /\ RunEnd(runs, k) > ms}

\* a splice that rewrites inside the first affected run only
SpliceFirstRunOnly(runs, ms, me, replacement) ==
    LET aff == Affected(runs, ms, me)
        firstK == Min(aff)
        t == runs[firstK].text
        from == ms - RunStart(runs, firstK)
    IN  IF aff = {} THEN runs
        ELSE [runs EXCEPT ![firstK].text =
                 Slice(t, 0, from) \o replacement \o Slice(t, from + (me - ms), Len(t))]

\* a splice that writes into the first affected run and removes the other affected runs
SpliceRemovingRuns(runs, ms, me, replacement) ==
    LET aff == Affected(runs, ms, me)
        firstK == Min(aff)
        lastK == Max(aff)
        prefix == Slice(runs[firstK].text, 0, ms - RunStart(runs, firstK))
        suffix == Slice(runs[lastK].text, me - RunStart(runs, lastK), Len(runs[lastK].text))
        kept == {k \in 1..Len(runs) : k \notin aff \/ k = firstK}
        nth(n) == CHOOSE k \in kept : Cardinality({h \in kept : h < k}) = n - 1
    IN  IF aff = {} THEN runs
        ELSE [n \in 1..Cardinality(kept) |->
                IF nth(n) = firstK
                THEN [runs[firstK] EXCEPT !.text = prefix \o replacement \o suffix]
                ELSE runs[nth(n)]]

\* a splice over several runs that leaves the text of the last affected run whole
SpliceWithoutTrim(runs, ms, me, replacement) ==
    LET aff == Affected(runs, ms, me)
        firstK == Min(aff)
        prefix == Slice(runs[firstK].text, 0, ms - RunStart(runs, firstK))
        suffix == Slice(runs[firstK].text, me - RunStart(runs, firstK), Len(runs[firstK].text))
    IN  IF aff = {} THEN runs
        ELSE IF Cardinality(aff) = 1
        THEN [runs EXCEPT ![firstK].text = prefix \o replacement \o suffix]
        ELSE [k \in 1..Len(runs) |->
                IF k = firstK THEN [runs[k] EXCEPT !.text = prefix \o replacement]
                ELSE IF k \in aff /\ k # Max(aff) THEN [runs[k] EXCEPT !.text = <<>>]
                ELSE runs[k]]

\* a splice that loses the text behind the match when the match lies in one run
SpliceDroppingSuffix(runs, ms, me, replacement) ==
    LET aff == Affected(runs, ms, me)
        firstK == Min(aff)
        lastK == Max(aff)
        prefix == Slice(runs[firstK].text, 0, ms - RunStart(runs, firstK))
        suffix == Slice(runs[lastK].text, me - RunStart(runs, lastK), Len(runs[lastK].text))
    IN  IF aff = {} THEN runs
        ELSE IF Cardinality(aff) = 1
        THEN [runs EXCEPT ![firstK].text = prefix \o replacement]
        ELSE [k \in 1..Len(runs) |->
                IF k = firstK THEN [runs[k] EXCEPT !.text = prefix \o replacement]
                ELSE IF k = lastK THEN [runs[k] EXCEPT !.text = suffix]
                ELSE IF k \in aff THEN [runs[k] EXCEPT !.text = <<>>]
                ELSE runs[k]]

\* the body of the loop after the match: the first affected run gets
\* prefix + replacement, the runs between are emptied, the last keeps its suffix
SpliceRuns(runs, ms, me, replacement) ==
    LET aff   == Affected(runs, ms, me)
        firstK == Min(aff)
        lastK  == Max(aff)
        prefixLen == IF ms - RunStart(runs, firstK) > 0 THEN ms - RunStart(runs, firstK) ELSE 0
        suffixLen == IF RunEnd(runs, lastK) - me > 0 THEN RunEnd(runs, lastK) - me ELSE 0
        prefix == Slice(runs[firstK].text, 0, prefixLen)
        lastText == runs[lastK].text
        suffix == IF suffixLen > 0
                  THEN Slice(lastText, Len(lastText) - suffixLen, Len(lastText))
                  ELSE <<>>
    IN  IF aff = {} THEN runs
        ELSE IF Cardinality(aff) = 1
        THEN [runs EXCEPT ![firstK].text = prefix \o replacement \o suffix]
        ELSE [k \in 1..Len(runs) |->
                IF k = firstK THEN [runs[k] EXCEPT !.text = prefix \o replacement]
                ELSE IF k = lastK THEN [runs[k] EXCEPT !.text = suffix]
                ELSE IF k \in aff THEN [runs[k] EXCEPT !.text = <<>>]
                ELSE runs[k]]

-----------------------------------------------------------------------------
(* The paragraph element: its children, para.runs, _unwrap_hyperlinks *)

\* a child of the paragraph element w:p: a run w:r, a w:hyperlink holding runs,
\* or another element (w:pPr, a bookmark)
RunElem(run) == [tag |-> "r", text |-> run.text, style |-> run.style, kids |-> <<>>]
Hyperlink(runs) == [tag |-> "hyperlink", text |-> <<>>, style |-> 0, kids |-> runs]
OtherElem == [tag |-> "pPr", text |-> <<>>, style |-> 0, kids |-> <<>>]

\* the place of a direct run among the children
RunSlot == [tag |-> "r", text |-> <<>>, style |-> 0, kids |-> <<>>]

\* the children of the paragraph element: every slot holds the next run of para.runs
Children(shape, runs) ==
    [k \in 1..Len(shape) |->
        IF shape[k].tag = "r"
        THEN RunElem(runs[Cardinality({j \in 1..k : shape[j].tag = "r"})])
        ELSE shape[k]]

\* para.runs: the w:r elements that are direct children of the paragraph
ParaRuns(children) ==
    LET rs == SelectSeq(children, LAMBDA c : c.tag = "r")
    IN  [k \in 1..Len(rs) |-> [text |-> rs[k].text, style |-> rs[k].style]]

ShapeOf(children) ==
    [k \in 1..Len(children) |-> IF children[k].tag = "r" THEN RunSlot ELSE children[k]]

\* parent.insert(idx, e), idx counted from 0
InsertAt(c, idx, e) == SubSeq(c, 1, idx) \o <<e>> \o SubSeq(c, idx + 1, Len(c))

\* parent.remove(hyperlink): the wrapper is the first hyperlink still among the children
RemoveHyperlink(c) ==
    LET at == Min({k \in 1..Len(c) : c[k].tag = "hyperlink"})
    IN  SubSeq(c, 1, at - 1) \o SubSeq(c, at + 1, Len(c))

\* an unwrapping that puts every run of the wrapper at the wrapper's index
RECURSIVE InsertRunsAtWrapper(_, _, _, _)
InsertRunsAtWrapper(c, idx, kids, i) ==
    IF i >= Len(kids) THEN c
    ELSE InsertRunsAtWrapper(InsertAt(c, idx, RunElem(kids[i + 1])), idx, kids, i + 1)

\* "for i, run_elem in enumerate(hyperlink.findall(qn('w:r'))):
\*      parent.insert(idx + i, run_elem)", from the run numbered i on
RECURSIVE InsertRuns(_, _, _, _)
InsertRuns(c, idx, kids, i) ==
    IF i >= Len(kids) THEN c
    ELSE InsertRuns(InsertAt(c, idx + i, RunElem(kids[i + 1])), idx, kids, i + 1)

\* _unwrap_hyperlinks: the hyperlinks found among the children, each in turn
RECURSIVE UnwrapHyperlinks(_)
UnwrapHyperlinks(c) ==
    LET H == {k \in 1..Len(c) : c[k].tag = "hyperlink"}
    IN  IF H = {} THEN c
        ELSE LET idx == Min(H) - 1
                 kids == c[idx + 1].kids
             IN  UnwrapHyperlinks(RemoveHyperlink(InsertRuns(c, idx, kids, 0)))

\* the paragraph as the splicer of each file sees it on entry: src/new/PII/function.py
\* unwraps first, src/function_app.py reads para.runs as they are
ElementOnEntry(im, shape, runs) ==
    IF im = "NP" THEN UnwrapHyperlinks(Children(shape, runs)) ELSE Children(shape, runs)

-----------------------------------------------------------------------------
(* The replacement list: dropping incomplete entries, longest-first order *)

\* r.get("original") / r.get("replacement") returning None
Missing == <<"None">>

\* sanitize_docx_bytes / sanitize_pdf_bytes keep an entry when neither value is None
Complete(r) == r.original # Missing /\ r.replacement # Missing

\* sorted(replacements, key=lambda r: len(r["original"]), ...) of src/function_app.py
\* raises TypeError when an original is None
SortRaises(rs) == \E k \in 1..Len(rs) : rs[k].original = Missing

\* an insertion that puts an entry in front of the placed entries of its own length
RECURSIVE InsertBeforeEqual(_, _)
InsertBeforeEqual(e, s) ==
    IF s = <<>> THEN <<e>>
    ELSE IF Len(Head(s).original) > Len(e.original)
         THEN <<Head(s)>> \o InsertBeforeEqual(e, Tail(s))
         ELSE <<e>> \o s

\* list.sort / sorted with key=len(original), reverse=True: a stable sort, so
\* an entry goes behind every entry already placed that is at least as long
RECURSIVE InsertByLen(_, _)
InsertByLen(e, s) ==
    IF s = <<>> THEN <<e>>
    ELSE IF Len(Head(s).original) >= Len(e.original)
         THEN <<Head(s)>> \o InsertByLen(e, Tail(s))
         ELSE <<e>> \o s

RECURSIVE SortedInto(_, _)
SortedInto(rest, acc) ==
    IF rest = <<>> THEN acc
    ELSE SortedInto(Tail(rest), InsertByLen(Head(rest), acc))

\* the list left in the order it was given
GivenOrder(s) == s

SortLongestFirst(s) == SortedInto(s, <<>>)

\* repl_list of sanitize_docx_bytes and sanitize_pdf_bytes
ReplListNP(rs) == SortLongestFirst(SelectSeq(rs, Complete))

\* sorted_replacements of apply_replacements_to_document and sanitize_pdf_in_place
SortedReplacementsFA(rs) == SortLongestFirst(rs)

-----------------------------------------------------------------------------
(* The fallback pass of src/function_app.py *)

ContainsCI(t, original) == MatchStarts("ci", original, t) # {}

\* re.sub(re.escape(original), replacement, t, flags=re.IGNORECASE), scanning from offset s
RECURSIVE ReSubFrom(_, _, _, _)
ReSubFrom(original, replacement, t, s) ==
    IF s > Len(t) THEN <<>>
    ELSE IF MatchesAtCI(original, t, s)
         THEN IF Len(original) = 0
              THEN replacement \o Slice(t, s, s + 1)
                       \o ReSubFrom(original, replacement, t, s + 1)
              ELSE replacement \o ReSubFrom(original, replacement, t, s + Len(original))
         ELSE Slice(t, s, s + 1) \o ReSubFrom(original, replacement, t, s + 1)

ReSub(original, replacement, t) == ReSubFrom(original, replacement, t, 0)

\* the inner "for run in runs" of the fallback, from run k on
RECURSIVE FallbackRuns(_, _, _)
FallbackRuns(st, rep, k) ==
    IF k > Len(st.runs) THEN st
    ELSE LET old == st.runs[k].text
             new == ReSub(rep.original, rep.replacement, old)
         IN  IF ContainsCI(old, rep.original) /\ new # old
             THEN FallbackRuns([runs |-> [st.runs EXCEPT ![k].text = new],
                                made |-> st.made + 1], rep, k + 1)
             ELSE FallbackRuns(st, rep, k + 1)

\* the outer "for rep in sorted_replacements" of the fallback, from entry j on
RECURSIVE FallbackEntries(_, _, _)
FallbackEntries(st, rs, j) ==
    IF j > Len(rs) THEN st
    ELSE IF ContainsCI(FullText(st.runs), rs[j].original)
         THEN FallbackEntries(FallbackRuns(st, rs[j], 1), rs, j + 1)
         ELSE FallbackEntries(st, rs, j + 1)

\* _apply_replacements_to_paragraph_fallback: the runs it leaves and replacements_made
ApplyFallback(runs, rs) ==
    IF runs = <<>> THEN [runs |-> runs, made |-> 0]
    ELSE FallbackEntries([runs |-> runs, made |-> 0], rs, 1)

-----------------------------------------------------------------------------
(* Documents *)

\* the pieces [s, e) of 0..n cut at the offsets in cuts, from offset s on
RECURSIVE PieceBounds(_, _, _)
PieceBounds(n, s, cuts) ==
    LET later == {c \in cuts : c > s /\ c < n}
    IN  IF later = {} THEN << <<s, n>> >>
        ELSE << <<s, Min(later)>> >> \o PieceBounds(n, Min(later), cuts)

\* a paragraph holding t[s:e] in runs cut at the offsets in runCuts
MakeRuns(t, s, e, runCuts) ==
    LET b == PieceBounds(e, s, runCuts)
    IN  [k \in 1..Len(b) |-> [text |-> Slice(t, b[k][1], b[k][2]), style |-> k]]

\* the document holding text t, with paragraph breaks at paraCuts and run breaks at runCuts
MakeDoc(t, paraCuts, runCuts) ==
    LET b == PieceBounds(Len(t), 0, paraCuts)
    IN  [p \in 1..Len(b) |-> MakeRuns(t, b[p][1], b[p][2], runCuts)]

\* a text cut into the runs of one paragraph, or into paragraphs of one run each ...
\* ... and the document of one paragraph without runs
DocShapes ==
    { x \in TextsUpTo(Alphabet, MaxLen) \X (SUBSET (1..MaxLen)) \X (SUBSET (1..MaxLen)) :
        /\ x[2] \subseteq 1..(Len(x[1]) - 1)
        /\ x[3] \subseteq 1..(Len(x[1]) - 1)
        /\ x[2] = {} \/ x[3] = {} }

Docs == { MakeDoc(x[1], x[2], x[3]) : x \in DocShapes } \cup { << <<>> >> }

\* the part of the document a paragraph belongs to: doc.paragraphs come first, then
\* the table cells, then the headers and footers
PartOf(p) == CASE p = 1 -> "body" [] p = 2 -> "cell" [] OTHER -> "hf"

\* original and replacement texts of the entries
Originals == {<<"a">>, <<"A">>, <<"a", "a">>, <<"a", " ">>}

\* every original with a replacement that shares no character with any original,
\* and the replacements that bring an "a" back into the text
Entries ==
    [original : Originals, replacement : {<<"x">>}]
    \cup [original : {<<"a">>, <<"a", "a">>, <<"a", " ">>}, replacement : {<<"a">>}]

\* three entries, two of them of equal length and overlapping in "aa ", in any order
OverlapEntries == [original : {<<"a">>, <<"a", "a">>, <<"a", " ">>}, replacement : {<<"x">>}]

OverlapLists ==
    {l \in [1..3 -> OverlapEntries] : \A i, j \in 1..3 : i # j => l[i] # l[j]}

\* two entries of equal length, the second bringing back the "a" that completes a
\* match of the first
RematchLists ==
    { << [original |-> <<"a", "a">>, replacement |-> r],
         [original |-> <<"a", " ">>, replacement |-> <<"a">>] >> : r \in {<<"x">>, <<"a">>} }

RawLists == UNION {[1..n -> Entries] : n \in 0..MaxEntries} \cup OverlapLists

ZeroStats == [paragraphs_changed |-> 0, table_cells_changed |-> 0,
              header_footer_changed |-> 0, total_replacements |-> 0]

-----------------------------------------------------------------------------
(* The sanitize call on a flowing document *)

\* the origin of every character of a paragraph: its offset + 1 in the paragraph's text
ProvOf(runs) ==
    [k \in 1..Len(runs) |->
        [text |-> [j \in 1..Len(runs[k].text) |-> RunStart(runs, k) + j],
         style |-> runs[k].style]]

\* replacement characters have origin 0
Zeros(t) == [k \in 1..Len(t) |-> 0]

\* a search that looks at the text of the first run only
FindInFirstRun(im, runs, original) ==
    IF runs = <<>> THEN -1
    ELSE ReSearch(PatternOf(im, original), original, runs[1].text)

\* re.search(pattern, full_text, flags) of the splicer: offset of the match, -1 for None
FindMatch(im, runs, original) ==
    ReSearch(PatternOf(im, original), original, FullText(runs))

\* the while loop of one entry, from its body number n + 1 on
RECURSIVE SpliceLoop(_, _, _, _)
SpliceLoop(im, runs, rep, n) ==
    LET ms == FindMatch(im, runs, rep.original)
        me == ms + Len(rep.original)
    IN  IF n >= MaxIter \/ ms < 0 \/ Affected(runs, ms, me) = {} THEN runs
        ELSE SpliceLoop(im, SpliceRuns(runs, ms, me, rep.replacement), rep, n + 1)

\* the for loop over the entries, from entry j on
RECURSIVE SplicePass(_, _, _, _)
SplicePass(im, runs, rs, j) ==
    IF j > Len(rs) THEN runs
    ELSE SplicePass(im, SpliceLoop(im, runs, rs[j], 0), rs, j + 1)

\* _apply_replacements_to_paragraph as a function of the runs it is given
ApplyReplacementsToParagraph(im, runs, rs) ==
    IF runs = <<>> THEN runs ELSE SplicePass(im, runs, rs, 1)

\* "count += 1" / "total_replacements += 1": the splices of the while loop of one
\* entry, from its body number n + 1 on
RECURSIVE SplicesInLoop(_, _, _, _)
SplicesInLoop(im, runs, rep, n) ==
    LET ms == FindMatch(im, runs, rep.original)
        me == ms + Len(rep.original)
    IN  IF n >= MaxIter \/ ms < 0 \/ Affected(runs, ms, me) = {} THEN 0
        ELSE 1 + SplicesInLoop(im, SpliceRuns(runs, ms, me, rep.replacement), rep, n + 1)

\* the splices of the for loop over the entries, from entry j on
RECURSIVE SplicesInPass(_, _, _, _)
SplicesInPass(im, runs, rs, j) ==
    IF j > Len(rs) THEN 0
    ELSE SplicesInLoop(im, runs, rs[j], 0)
             + SplicesInPass(im, SpliceLoop(im, runs, rs[j], 0), rs, j + 1)

\* the count _apply_replacements_to_paragraph returns
ReplacementCount(im, runs, rs) ==
    IF runs = <<>> THEN 0 ELSE SplicesInPass(im, runs, rs, 1)

\* _process_paragraph as a function of the runs it is given: the primary pass and,
\* in src/function_app.py when it counted nothing, the fallback pass
ProcessParagraph(im, runs, rs) ==
    LET made == ReplacementCount(im, runs, rs)
        out  == ApplyReplacementsToParagraph(im, runs, rs)
    IN  IF im = "FA" /\ made = 0 THEN ApplyFallback(out, rs)
        ELSE [runs |-> out, made |-> made]

NoSplice == [entry |-> 0, start |-> 0, end |-> 0, runs |-> <<>>]

\* "Fallback: Helvetica 11pt black" of _get_text_properties_at_rect; a colour is
\* the triple of its channels in 255ths
DefaultProps ==
    [fontname |-> "helv", fontsize |-> 11, text_color |-> <<0, 0, 0>>, flags |-> 0,
     original_font |-> <<"H", "e", "l", "v", "e", "t", "i", "c", "a">>]

\* no add_redact_annot call yet
NoRedact ==
    [text |-> <<>>, fontname |-> "", fontsize |-> 0, text_color |-> <<0, 0, 0>>,
     fill |-> <<0, 0, 0>>, align |-> ""]

FontIdle ==
    /\ font_name = <<>>
    /\ flags = 0
    /\ fontname = ""
    /\ spans = <<>>
    /\ inst_rect = <<0, 0, 0, 0>>
    /\ props = DefaultProps
    /\ redact = NoRedact

DocIdle ==
    /\ doc = <<>>
    /\ doc0 = <<>>
    /\ pi = 0
    /\ ri = 0
    /\ iter = 0
    /\ count = 0
    /\ stats = ZeroStats
    /\ prov = <<>>
    /\ log = <<>>
    /\ last = NoSplice
    /\ hit = {}

NetIdle ==
    /\ full_text = <<>>
    /\ replacements = <<>>
    /\ covered = {}
    /\ email_counter = 0
    /\ phone_counter = 0
    /\ id_counter = 0
    /\ call = 0
    /\ given = <<>>
    /\ first = <<>>

PdfIdle ==
    /\ pages = <<>>
    /\ pages0 = <<>>
    /\ pn = 0
    /\ ei = 0
    /\ instances = <<>>
    /\ ii = 0
    /\ annots = <<>>
    /\ total_redactions = 0
    /\ scrubbed = FALSE
    /\ pprov = <<>>
    /\ plog = <<>>

\* a document without hyperlinks: every child of a paragraph is a run
PlainShape(d) == [p \in 1..Len(d) |-> [k \in 1..Len(d[p]) |-> RunSlot]]

AuxIdle ==
    /\ wrap = <<>>
    /\ wrap0 = <<>>
    /\ tried = {}
    /\ skipped = {}

\* the length of the text of a document
DocLen(d) == Len(ConcatAll([p \in 1..Len(d) |-> FullText(d[p])]))

\* a call on a document: the longest texts come with the shorter lists (and with
\* the lists of overlapping and of rematching entries), the longest lists with
\* the shorter texts
InitDocx ==
    /\ op = "docx"
    /\ impl \in {"NP", "FA"}
    /\ raw \in RawLists
    /\ repl = <<>>
    /\ pc = "start"
    /\ doc \in Docs
    /\ \/ Len(raw) < MaxEntries
       \/ raw \in OverlapLists \cup RematchLists
       \/ DocLen(doc) < MaxLen
    /\ doc0 = doc
    /\ wrap = PlainShape(doc)
    /\ wrap0 = wrap
    /\ tried = {}
    /\ skipped = {}
    /\ pi = 0
    /\ ri = 0
    /\ iter = 0
    /\ count = 0
    /\ stats = ZeroStats
    /\ prov = <<>>
    /\ log = <<>>
    /\ last = NoSplice
    /\ hit = {}
    /\ PdfIdle
    /\ NetIdle
    /\ FontIdle

\* an early return that hands back a new, empty document
ReturnBlank ==
    /\ op = "docx"
    /\ pc = "start"
    /\ raw = <<>>
    /\ doc' = <<>>
    /\ pc' = "done"
    /\ UNCHANGED <<fontVars, auxVars, pdfVars, netVars, op, impl, raw, repl, pi, ri, iter, count, stats, doc0,
                   prov, log, last, hit>>

\* "if not replacements: return": the document comes back as it was
ReturnUnchanged ==
    /\ op = "docx"
    /\ pc = "start"
    /\ raw = <<>>
    /\ pc' = "done"
    /\ UNCHANGED <<fontVars, auxVars, pdfVars, netVars, op, impl, raw, repl, docVars>>

\* the replacement list is built and the walk over the paragraphs starts
BuildList ==
    /\ op = "docx"
    /\ pc = "start"
    /\ raw # <<>>
    /\ ~(impl = "FA" /\ SortRaises(raw))
    /\ repl' = IF impl = "NP" THEN ReplListNP(raw) ELSE SortedReplacementsFA(raw)
    /\ pi' = 1
    /\ pc' = "para"
    /\ UNCHANGED <<fontVars, auxVars, pdfVars, netVars, op, impl, raw, doc, ri, iter, count, stats, doc0, prov, log, last, hit>>

\* _apply_replacements_to_paragraph is entered; "if not runs: return 0"
EnterParagraph ==
    /\ pc = "para"
    /\ pi <= Len(doc)
    /\ count' = 0
    /\ ri' = 1
    /\ iter' = 0
    /\ LET elem == ElementOnEntry(impl, wrap[pi], doc[pi])
           runs == ParaRuns(elem)
       IN  /\ doc' = [doc EXCEPT ![pi] = runs]
           /\ wrap' = [wrap EXCEPT ![pi] = ShapeOf(elem)]
           /\ prov' = ProvOf(runs)
           /\ pc' = IF runs = <<>> THEN "returned" ELSE "loop"
    /\ log' = <<>>
    /\ last' = NoSplice
    /\ hit' = {}
    /\ UNCHANGED <<fontVars, pdfVars, netVars, op, impl, raw, repl, pi, stats, doc0, wrap0, tried, skipped>>

\* a body of the while loop that splices without counting the iteration
SpliceStepUncounted ==
    /\ pc = "loop"
    /\ ri <= Len(repl)
    /\ iter < MaxIter
    /\ LET runs == doc[pi]
           orig == repl[ri].original
           ms   == FindMatch(impl, runs, orig)
           me   == ms + Len(orig)
           new  == SpliceRuns(runs, ms, me, repl[ri].replacement)
       IN  /\ ms >= 0
           /\ Affected(runs, ms, me) # {}
           /\ repl[ri].replacement # Missing
           /\ doc' = [doc EXCEPT ![pi] = new]
           /\ prov' = SpliceRuns(prov, ms, me, Zeros(repl[ri].replacement))
           /\ last' = [entry |-> ri, start |-> ms, end |-> me, runs |-> runs]
           /\ log' = Append(log,
                  [entry |-> ri,
                   origins |-> Slice(FullText(prov), ms, me),
                   span |-> Cardinality(Affected(runs, ms, me)),
                   made |-> {k \in 1..(ri - 1) :
                               /\ MatchStarts(PatternOf(impl, repl[k].original),
                                              repl[k].original, FullText(runs)) = {}
                               /\ MatchStarts(PatternOf(impl, repl[k].original),
                                              repl[k].original, FullText(new)) # {}}])
    /\ iter' = iter
    /\ count' = count + 1
    /\ tried' = tried \cup {<<pi, ri>>}
    /\ UNCHANGED <<fontVars, pdfVars, netVars, op, impl, raw, repl, pc, pi, ri, stats, doc0, hit,
                   wrap, wrap0, skipped>>

\* one body of the while loop that finds a match and splices it
SpliceStep ==
    /\ pc = "loop"
    /\ ri <= Len(repl)
    /\ iter < MaxIter
    /\ LET runs == doc[pi]
           orig == repl[ri].original
           ms   == FindMatch(impl, runs, orig)
           me   == ms + Len(orig)
           new  == SpliceRuns(runs, ms, me, repl[ri].replacement)
       IN  /\ ms >= 0
           /\ Affected(runs, ms, me) # {}
           /\ repl[ri].replacement # Missing
           /\ doc' = [doc EXCEPT ![pi] = new]
           /\ prov' = SpliceRuns(prov, ms, me, Zeros(repl[ri].replacement))
           /\ last' = [entry |-> ri, start |-> ms, end |-> me, runs |-> runs]
           /\ log' = Append(log,
                  [entry |-> ri,
                   origins |-> Slice(FullText(prov), ms, me),
                   span |-> Cardinality(Affected(runs, ms, me)),
                   made |-> {k \in 1..(ri - 1) :
                               /\ MatchStarts(PatternOf(impl, repl[k].original),
                                              repl[k].original, FullText(runs)) = {}
                               /\ MatchStarts(PatternOf(impl, repl[k].original),
                                              repl[k].original, FullText(new)) # {}}])
    /\ iter' = iter + 1
    /\ count' = count + 1
    /\ tried' = tried \cup {<<pi, ri>>}
    /\ UNCHANGED <<fontVars, pdfVars, netVars, op, impl, raw, repl, pc, pi, ri, stats, doc0, hit,
                   wrap, wrap0, skipped>>

\* one body of the while loop that breaks: no match, or no affected run
EntryBreak ==
    /\ pc = "loop"
    /\ ri <= Len(repl)
    /\ iter < MaxIter
    /\ LET runs == doc[pi]
           orig == repl[ri].original
           ms   == FindMatch(impl, runs, orig)
       IN  ms < 0 \/ Affected(runs, ms, ms + Len(orig)) = {}
    /\ ri' = ri + 1
    /\ iter' = 0
    /\ tried' = tried \cup {<<pi, ri>>}
    /\ UNCHANGED <<fontVars, pdfVars, netVars, op, impl, raw, repl, pc, doc, pi, count, stats, doc0, prov,
                   log, last, hit, wrap, wrap0, skipped>>

\* the while condition fails after MaxIter bodies: the entry is given up
EntryExhausted ==
    /\ pc = "loop"
    /\ ri <= Len(repl)
    /\ iter = MaxIter
    /\ hit' = hit \cup {ri}
    /\ ri' = ri + 1
    /\ iter' = 0
    /\ UNCHANGED <<fontVars, auxVars, pdfVars, netVars, op, impl, raw, repl, pc, doc, pi, count, stats,
                   doc0, prov, log, last>>

\* the for loop over the entries ends: return count
ParagraphReturn ==
    /\ pc = "loop"
    /\ ri > Len(repl)
    /\ pc' = "returned"
    /\ UNCHANGED <<fontVars, auxVars, pdfVars, netVars, op, impl, raw, repl, docVars>>

\* the fallback run after every primary pass, its count added to the primary's
RunFallbackAlways ==
    /\ pc = "returned"
    /\ impl = "FA"
    /\ LET fb == ApplyFallback(doc[pi], repl)
       IN  /\ doc' = [doc EXCEPT ![pi] = fb.runs]
           /\ count' = count + fb.made
    /\ pc' = "counted"
    /\ UNCHANGED <<fontVars, auxVars, pdfVars, netVars, op, impl, raw, repl, pi, ri, iter, stats, doc0, prov, log, last, hit>>

\* _process_paragraph of src/function_app.py: "if count == 0" the fallback runs
RunFallback ==
    /\ pc = "returned"
    /\ impl = "FA"
    /\ count = 0
    /\ LET fb == ApplyFallback(doc[pi], repl)
       IN  /\ doc' = [doc EXCEPT ![pi] = fb.runs]
           /\ count' = fb.made
    /\ pc' = "counted"
    /\ UNCHANGED <<fontVars, auxVars, pdfVars, netVars, op, impl, raw, repl, pi, ri, iter, stats, doc0, prov, log, last, hit>>

\* no fallback: src/new/PII/function.py has none, src/function_app.py skips it
NoFallback ==
    /\ pc = "returned"
    /\ impl = "NP" \/ count > 0
    /\ pc' = "counted"
    /\ UNCHANGED <<fontVars, auxVars, pdfVars, netVars, op, impl, raw, repl, docVars>>

\* the statistics of apply_replacements_to_document (process_para of
\* src/new/PII/function.py keeps none), then the next paragraph
NextParagraph ==
    /\ pc = "counted"
    /\ stats' =
         IF impl = "FA" /\ count > 0
         THEN [stats EXCEPT
                 !.total_replacements = @ + count,
                 !.paragraphs_changed = IF PartOf(pi) = "body" THEN @ + 1 ELSE @,
                 !.table_cells_changed = IF PartOf(pi) = "cell" THEN @ + 1 ELSE @,
                 !.header_footer_changed = IF PartOf(pi) = "hf" THEN @ + 1 ELSE @]
         ELSE stats
    /\ pi' = pi + 1
    /\ pc' = IF pi + 1 > Len(doc) THEN "done" ELSE "para"
    /\ UNCHANGED <<fontVars, auxVars, pdfVars, netVars, op, impl, raw, repl, doc, ri, iter, count, doc0, prov, log, last, hit>>

NextDocx ==
    \/ ReturnUnchanged
    \/ BuildList
    \/ EnterParagraph
    \/ SpliceStep
    \/ EntryBreak
    \/ EntryExhausted
    \/ ParagraphReturn
    \/ RunFallback
    \/ NoFallback
    \/ NextParagraph



-----------------------------------------------------------------------------
(* Fixed-layout documents: the page redaction loops *)

\* page.search_for(needle): the rectangles of the occurrences of needle in the page's
\* current text, letter case ignored, left to right without overlap; a rectangle is
\* the pair of offsets <<start, end>> of the text it covers
RECURSIVE SearchFrom(_, _, _)
SearchFrom(t, needle, s) ==
    IF Len(needle) = 0 \/ s + Len(needle) > Len(t) THEN <<>>
    ELSE IF MatchesAtCI(needle, t, s)
         THEN << <<s, s + Len(needle)>> >> \o SearchFrom(t, needle, s + Len(needle))
         ELSE SearchFrom(t, needle, s + 1)

SearchFor(t, needle) == SearchFrom(t, needle, 0)

\* str.strip() of the text under a rectangle
RECURSIVE Strip(_)
Strip(t) ==
    IF t = <<>> THEN t
    ELSE IF Head(t) = " " THEN Strip(Tail(t))
    ELSE IF t[Len(t)] = " " THEN Strip(SubSeq(t, 1, Len(t) - 1))
    ELSE t

\* "original in clip_text": a case-sensitive substring test
Contains(t, original) ==
    \E s \in 0..Len(t) :
        /\ s + Len(original) <= Len(t)
        /\ \A k \in 1..Len(original) : t[s + k] = original[k]

\* page.get_text("text", clip=rect).strip()
ClipText(t, rect) == Strip(Slice(t, rect[1], rect[2]))

KeepsRect(t, original, rect) == Contains(ClipText(t, rect), original)

\* instances of sanitize_pdf_bytes: for a short all-caps original only the
\* rectangles whose text holds the original in its own letter case
InstancesNP(t, original) ==
    IF NeedsWordBoundary(original)
    THEN SelectSeq(SearchFor(t, original), LAMBDA rect : KeepsRect(t, original, rect))
    ELSE SearchFor(t, original)

\* text_instances of sanitize_pdf_in_place
TextInstancesFA(t, original) == SearchFor(t, original)

InstancesOf(im, t, original) ==
    IF im = "NP" THEN InstancesNP(t, original) ELSE TextInstancesFA(t, original)

\* page.apply_redactions: under every annotation the text is removed and the
\* annotation's text is drawn in its place; annotations k, k-1, .., 1 in turn
RECURSIVE ApplyAnnots(_, _, _)
ApplyAnnots(t, as, k) ==
    IF k = 0 THEN t
    ELSE ApplyAnnots(Slice(t, 0, as[k].rect[1]) \o as[k].text \o Slice(t, as[k].rect[2], Len(t)),
                     as, k - 1)

\* the origin of every character of a page: its offset + 1
PageProv(t) == [k \in 1..Len(t) |-> k]

\* characters drawn for entry e have origin -e
Drawn(as, e) == [k \in 1..Len(as) |-> [rect |-> as[k].rect,
                                       text |-> [j \in 1..Len(as[k].text) |-> 0 - e]]]

\* a document of one page, or of two short pages
PdfDocs ==
    { <<t>> : t \in TextsUpTo(Alphabet, MaxLen) }
    \cup { <<t[1], t[2]>> : t \in TextsUpTo(Alphabet, 1) \X TextsUpTo(Alphabet, 1) }

InitPdf ==
    /\ op = "pdf"
    /\ impl \in {"NP", "FA"}
    /\ raw \in RawLists
    /\ repl = <<>>
    /\ pc = "start"
    /\ pages \in PdfDocs
    /\ \/ Len(raw) < MaxEntries
       \/ raw \in OverlapLists \cup RematchLists
       \/ Len(ConcatAll(pages)) < MaxLen
    /\ pages0 = pages
    /\ pn = 0
    /\ ei = 0
    /\ instances = <<>>
    /\ ii = 0
    /\ annots = <<>>
    /\ total_redactions = 0
    /\ scrubbed = FALSE
    /\ pprov = <<>>
    /\ plog = <<>>
    /\ DocIdle
    /\ NetIdle
    /\ FontIdle
    /\ AuxIdle

\* sanitize_pdf_bytes: "if not replacements: return pdf_bytes"
PdfReturnUnchanged ==
    /\ op = "pdf"
    /\ pc = "start"
    /\ impl = "NP"
    /\ raw = <<>>
    /\ pc' = "done"
    /\ UNCHANGED <<fontVars, auxVars, op, impl, raw, repl, docVars, netVars, pdfVars>>

\* the list is built, the document opened, the first page entered
PdfOpen ==
    /\ op = "pdf"
    /\ pc = "start"
    /\ ~(impl = "NP" /\ raw = <<>>)
    /\ ~(impl = "FA" /\ SortRaises(raw))
    /\ repl' = IF impl = "NP" THEN ReplListNP(raw) ELSE SortedReplacementsFA(raw)
    /\ pn' = 1
    /\ ei' = 1
    /\ pprov' = PageProv(pages[1])
    /\ pc' = "search"
    /\ UNCHANGED <<fontVars, auxVars, op, impl, raw, docVars, netVars, pages, instances, ii, annots,
                   total_redactions, scrubbed, pages0, plog>>

\* the search for the entry finds nothing: "continue" / "if instances:" fails
SearchNothing ==
    /\ pc = "search"
    /\ ei <= Len(repl)
    /\ InstancesOf(impl, pages[pn], repl[ei].original) = <<>>
    /\ ei' = ei + 1
    /\ tried' = tried \cup {<<pn, ei>>}
    /\ UNCHANGED <<fontVars, callVars, docVars, netVars, pages, pn, instances, ii, annots,
                   total_redactions, scrubbed, pages0, pprov, plog, wrap, wrap0, skipped>>

\* the search for the entry returns rectangles
SearchPage ==
    /\ pc = "search"
    /\ ei <= Len(repl)
    /\ InstancesOf(impl, pages[pn], repl[ei].original) # <<>>
    /\ instances' = InstancesOf(impl, pages[pn], repl[ei].original)
    /\ ii' = 1
    /\ pc' = "annot"
    /\ tried' = tried \cup {<<pn, ei>>}
    /\ UNCHANGED <<fontVars, op, impl, raw, repl, docVars, netVars, pages, pn, ei, annots,
                   total_redactions, scrubbed, pages0, pprov, plog, wrap, wrap0, skipped>>

\* the text add_redact_annot registers: text=None registers a redaction that draws nothing
AnnotText(replacement) == IF replacement = Missing THEN <<>> ELSE replacement

\* page.add_redact_annot(rect, text=replacement, ...) for one rectangle
AddRedactAnnot ==
    /\ pc = "annot"
    /\ ii <= Len(instances)
    /\ annots' = Append(annots, [rect |-> instances[ii], text |-> AnnotText(repl[ei].replacement)])
    /\ total_redactions' = IF impl = "FA" THEN total_redactions + 1 ELSE total_redactions
    /\ ii' = ii + 1
    /\ UNCHANGED <<fontVars, auxVars, callVars, docVars, netVars, pages, pn, ei, instances, scrubbed, pages0, pprov, plog>>

\* the loop going on to the next entry with the annotations left on the page, unapplied
ApplyRedactionsDeferred ==
    /\ pc = "annot"
    /\ ii > Len(instances)
    /\ instances' = <<>>
    /\ ii' = 0
    /\ ei' = ei + 1
    /\ pc' = "search"
    /\ UNCHANGED <<fontVars, auxVars, op, impl, raw, repl, docVars, netVars, pages, pn, annots,
                   total_redactions, scrubbed, pages0, pprov, plog>>

\* page.apply_redactions(...) right after the entry's annotations, then the next entry
ApplyRedactions ==
    /\ pc = "annot"
    /\ ii > Len(instances)
    /\ pages' = [pages EXCEPT ![pn] = ApplyAnnots(@, annots, Len(annots))]
    /\ pprov' = ApplyAnnots(pprov, Drawn(annots, ei), Len(annots))
    /\ plog' = Append(plog,
                 [entry |-> ei,
                  hits |-> [k \in 1..Len(instances) |->
                               Slice(pprov, instances[k][1], instances[k][2])]])
    /\ annots' = <<>>
    /\ instances' = <<>>
    /\ ii' = 0
    /\ ei' = ei + 1
    /\ pc' = "search"
    /\ UNCHANGED <<fontVars, auxVars, op, impl, raw, repl, docVars, netVars, pn, total_redactions, scrubbed, pages0>>

\* "for page in doc": the next page
NextPage ==
    /\ pc = "search"
    /\ ei > Len(repl)
    /\ pn < Len(pages)
    /\ pn' = pn + 1
    /\ ei' = 1
    /\ pprov' = PageProv(pages[pn + 1])
    /\ plog' = <<>>
    /\ UNCHANGED <<fontVars, auxVars, callVars, docVars, netVars, pages, instances, ii, annots,
                   total_redactions, scrubbed, pages0>>

\* after the last page: sanitize_pdf_in_place strips metadata and scrubs, both save
PdfSave ==
    /\ pc = "search"
    /\ ei > Len(repl)
    /\ pn = Len(pages)
    /\ scrubbed' = (impl = "FA")
    /\ pc' = "done"
    /\ UNCHANGED <<fontVars, auxVars, op, impl, raw, repl, docVars, netVars, pages, pn, ei, instances, ii, annots,
                   total_redactions, pages0, pprov, plog>>

NextPdf ==
    \/ PdfReturnUnchanged
    \/ PdfOpen
    \/ SearchNothing
    \/ SearchPage
    \/ AddRedactAnnot
    \/ ApplyRedactions
    \/ NextPage
    \/ PdfSave

Init == InitDocx \/ InitPdf

Next == NextDocx \/ NextPdf

Spec == Init /\ [][Next]_vars

-----------------------------------------------------------------------------
(* Failing library calls, malformed entries, paragraphs with hyperlinks *)

\* most hyperlinks in a paragraph
MaxLinks == 2

\* the exception is swallowed and the document is handed back as it stands
ReturnPartial ==
    /\ pc' = "done"
    /\ UNCHANGED <<fontVars, op, impl, raw, repl, docVars, pdfVars, netVars, wrap, wrap0, tried>>

\* the call ends with an exception: nothing is returned
Raise ==
    /\ pc' = "failed"
    /\ UNCHANGED <<fontVars, op, impl, raw, repl, docVars, pdfVars, netVars, wrap, wrap0, tried>>

\* Document(BytesIO(docx_bytes)) / fitz.open(...) raises: ValueError("Failed to open ...")
OpenRaises ==
    /\ pc = "start"
    /\ \/ op = "docx" /\ impl = "NP" /\ raw # <<>>
       \/ op = "pdf" /\ ~(impl = "NP" /\ raw = <<>>)
    /\ Raise
    /\ UNCHANGED skipped

\* src/function_app.py sorts the list as given: an original of None ends the call
SortedRaises ==
    /\ pc = "start"
    /\ op \in {"docx", "pdf"}
    /\ impl = "FA"
    /\ SortRaises(raw)
    /\ Raise
    /\ UNCHANGED skipped

\* "prefix + replacement" with a replacement of None raises TypeError before any
\* run is written
SpliceRaises ==
    /\ pc = "loop"
    /\ ri <= Len(repl)
    /\ iter < MaxIter
    /\ LET runs == doc[pi]
           orig == repl[ri].original
           ms   == FindMatch(impl, runs, orig)
       IN  /\ ms >= 0
           /\ Affected(runs, ms, ms + Len(orig)) # {}
           /\ repl[ri].replacement = Missing
    /\ Raise
    /\ UNCHANGED skipped

\* page.search_for(...) raises: neither loop catches it
SearchRaises ==
    /\ pc = "search"
    /\ ei <= Len(repl)
    /\ Raise
    /\ UNCHANGED skipped

\* add_redact_annot raises in sanitize_pdf_bytes: logged, the rectangle is passed over
AddRedactAnnotSkipped ==
    /\ pc = "annot"
    /\ ii <= Len(instances)
    /\ impl = "NP"
    /\ skipped' = skipped \cup {<<pn, ei, ii>>}
    /\ ii' = ii + 1
    /\ UNCHANGED <<fontVars, callVars, docVars, netVars, pages, pn, ei, instances, annots,
                   total_redactions, scrubbed, pages0, pprov, plog, wrap, wrap0, tried>>

\* add_redact_annot raises in sanitize_pdf_in_place: only the outer "except" catches
\* it, which raises ValueError
AddRedactAnnotRaises ==
    /\ pc = "annot"
    /\ ii <= Len(instances)
    /\ impl = "FA"
    /\ skipped' = skipped \cup {<<pn, ei, ii>>}
    /\ Raise

\* apply_redactions raises in sanitize_pdf_in_place
ApplyRedactionsRaises ==
    /\ pc = "annot"
    /\ ii > Len(instances)
    /\ impl = "FA"
    /\ Raise
    /\ UNCHANGED skipped

Faults ==
    \/ OpenRaises
    \/ SortedRaises
    \/ SpliceRaises
    \/ SearchRaises
    \/ AddRedactAnnotSkipped
    \/ AddRedactAnnotRaises
    \/ ApplyRedactionsRaises

\* characters of the texts of these documents
EdgeAlphabet == {"a", " "}

\* the children of a paragraph whose runs rs are grouped by g: g[k] = 0 leaves run k
\* a direct child, adjacent runs with the same g[k] > 0 share one hyperlink
RECURSIVE GroupRuns(_, _, _)
GroupRuns(rs, g, k) ==
    IF k > Len(rs) THEN <<>>
    ELSE IF g[k] = 0 THEN <<RunElem(rs[k])>> \o GroupRuns(rs, g, k + 1)
    ELSE LET j == Max({h \in k..Len(rs) : \A x \in k..h : g[x] = g[k]})
         IN  <<Hyperlink(SubSeq(rs, k, j))>> \o GroupRuns(rs, g, j + 1)

\* paragraphs with at least one hyperlink, with and without a w:pPr in front
LinkParas ==
    LET shapes == { x \in TextsUpTo(EdgeAlphabet, MaxLen) \X (SUBSET (1..MaxLen)) :
                      x[2] \subseteq 1..(Len(x[1]) - 1) }
        grouped(rs) == { GroupRuns(rs, g, 1) :
                           g \in { f \in [1..Len(rs) -> 0..MaxLinks] :
                                     /\ \E k \in 1..Len(rs) : f[k] # 0
                                     /\ \A k \in 1..Len(rs) :
                                           f[k] > 1 => \E j \in 1..(k - 1) : f[j] = f[k] - 1 } }
        plain == UNION { grouped(MakeRuns(x[1], 0, Len(x[1]), x[2])) : x \in shapes }
    IN  plain \cup { <<OtherElem>> \o c : c \in plain }

\* entries of the lists tried on paragraphs with hyperlinks
LinkEntries == [original : {<<"a">>, <<"a", "a">>, <<"a", " ">>}, replacement : {<<"x">>}]

LinkLists == UNION {[1..n -> LinkEntries] : n \in 0..MaxEntries}

InitLink ==
    /\ op = "docx"
    /\ impl \in {"NP", "FA"}
    /\ raw \in LinkLists
    /\ repl = <<>>
    /\ pc = "start"
    /\ \E c \in LinkParas :
          /\ doc = <<ParaRuns(c)>>
          /\ wrap = <<ShapeOf(c)>>
    /\ doc0 = doc
    /\ wrap0 = wrap
    /\ pi = 0
    /\ ri = 0
    /\ iter = 0
    /\ count = 0
    /\ stats = ZeroStats
    /\ prov = <<>>
    /\ log = <<>>
    /\ last = NoSplice
    /\ hit = {}
    /\ tried = {}
    /\ skipped = {}
    /\ PdfIdle
    /\ NetIdle
    /\ FontIdle

\* candidate entries as the detector may send them: well-formed, with an empty
\* original, with original or replacement None, and with replacement = original
CandEntries ==
    { [original |-> <<"a">>, replacement |-> <<"x">>],
      [original |-> <<>>, replacement |-> <<"x">>],
      [original |-> Missing, replacement |-> <<"x">>],
      [original |-> <<"a">>, replacement |-> Missing],
      [original |-> <<"a">>, replacement |-> <<"a">>],
      [original |-> <<"a", "a">>, replacement |-> <<"a", "a">>] }

CandLists == UNION {[1..n -> CandEntries] : n \in 0..MaxEntries}

\* one paragraph of at most two characters in one run or two
CandDocs ==
    { MakeDoc(x[1], {}, x[2]) :
        x \in { y \in TextsUpTo({"a", "A"}, 2) \X (SUBSET (1..1)) :
                  y[2] \subseteq 1..(Len(y[1]) - 1) } }

\* one page of at most two characters, or two pages of one character
CandPages ==
    { <<t>> : t \in TextsUpTo({"a", "A"}, 2) } \cup { << <<"a">>, <<"a">> >> }

InitCand ==
    /\ impl \in {"NP", "FA"}
    /\ raw \in CandLists
    /\ repl = <<>>
    /\ pc = "start"
    /\ \/ /\ op = "docx"
          /\ doc \in CandDocs
          /\ pages = <<>>
       \/ /\ op = "pdf"
          /\ doc = <<>>
          /\ pages \in CandPages
    /\ doc0 = doc
    /\ wrap = PlainShape(doc)
    /\ wrap0 = wrap
    /\ pages0 = pages
    /\ pi = 0
    /\ ri = 0
    /\ iter = 0
    /\ count = 0
    /\ stats = ZeroStats
    /\ prov = <<>>
    /\ log = <<>>
    /\ last = NoSplice
    /\ hit = {}
    /\ pn = 0
    /\ ei = 0
    /\ instances = <<>>
    /\ ii = 0
    /\ annots = <<>>
    /\ total_redactions = 0
    /\ scrubbed = FALSE
    /\ pprov = <<>>
    /\ plog = <<>>
    /\ tried = {}
    /\ skipped = {}
    /\ NetIdle
    /\ FontIdle

InitEdge == InitLink \/ InitCand

NextEdge == Next \/ Faults

SpecEdge == InitEdge /\ [][NextEdge]_vars

-----------------------------------------------------------------------------
(* The regex safety net of src/function_app.py *)

\* number of tokens a text of the safety net is built from
MaxTokens == 2

\* number of entries of the list passed to the safety net
MaxCovered == 2

Alpha == LowerLetters \cup UpperLetters

\* a pattern is a sequence of items: a character class repeated min..max times
\* (greedy), or a lookaround that forbids a character of the class next to the offset
Rep(cls, min, max) == [kind |-> "rep", cls |-> cls, min |-> min, max |-> max]
NotBehind(cls) == [kind |-> "notbehind", cls |-> cls, min |-> 0, max |-> 0]
NotAhead(cls) == [kind |-> "notahead", cls |-> cls, min |-> 0, max |-> 0]

\* the upper end of +, {2,}: no text is that long
Unbounded == 64

\* [a-zA-Z0-9._%+\-]+@[a-zA-Z0-9.\-]+\.[a-zA-Z]{2,}
EmailPattern ==
    << Rep(Alpha \cup Digits \cup {".", "_", "%", "+", "-"}, 1, Unbounded),
       Rep({"@"}, 1, 1),
       Rep(Alpha \cup Digits \cup {".", "-"}, 1, Unbounded),
       Rep({"."}, 1, 1),
       Rep(Alpha, 2, Unbounded) >>

\* \+\d{1,3}[\s\-]?\d{1,4}[\s\-]?\d{2,4}[\s\-]?\d{3,4}
PhoneInternational ==
    << Rep({"+"}, 1, 1), Rep(Digits, 1, 3), Rep({" ", "-"}, 0, 1), Rep(Digits, 1, 4),
       Rep({" ", "-"}, 0, 1), Rep(Digits, 2, 4), Rep({" ", "-"}, 0, 1), Rep(Digits, 3, 4) >>

\* \(?\d{3,4}\)?[\s\-\.]\d{3,4}[\s\-\.]\d{3,4}
PhoneLocal ==
    << Rep({"("}, 0, 1), Rep(Digits, 3, 4), Rep({")"}, 0, 1), Rep({" ", "-", "."}, 1, 1),
       Rep(Digits, 3, 4), Rep({" ", "-", "."}, 1, 1), Rep(Digits, 3, 4) >>

\* (?<!\d)\d{10,12}(?!\d)
PhoneCompact == << NotBehind(Digits), Rep(Digits, 10, 12), NotAhead(Digits) >>

PhonePatterns == << PhoneInternational, PhoneLocal, PhoneCompact >>

\* (?<!\d)\d{9}[VvXx](?!\d)
NicOld == << NotBehind(Digits), Rep(Digits, 9, 9), Rep({"V", "v", "X", "x"}, 1, 1),
             NotAhead(Digits) >>

\* (?<!\d)\d{12}(?!\d)
NicNew == << NotBehind(Digits), Rep(Digits, 12, 12), NotAhead(Digits) >>

NicPatterns == << NicOld, NicNew >>

\* the number of characters of cls at offset pos of t, up to max
RECURSIVE RunLen(_, _, _, _)
RunLen(t, pos, cls, max) ==
    IF max = 0 \/ pos >= Len(t) \/ t[pos + 1] \notin cls THEN 0
    ELSE 1 + RunLen(t, pos + 1, cls, max - 1)

\* the backtracking matcher: the end offset of the match of items k.. of pat at
\* offset pos, -1 if there is none; an item first takes all it can, then gives back
RECURSIVE MatchFrom(_, _, _, _)
RECURSIVE TryDown(_, _, _, _, _)
MatchFrom(t, pos, pat, k) ==
    IF k > Len(pat) THEN pos
    ELSE IF pat[k].kind = "notbehind"
         THEN IF pos >= 1 /\ t[pos] \in pat[k].cls THEN -1 ELSE MatchFrom(t, pos, pat, k + 1)
    ELSE IF pat[k].kind = "notahead"
         THEN IF pos < Len(t) /\ t[pos + 1] \in pat[k].cls THEN -1
              ELSE MatchFrom(t, pos, pat, k + 1)
    ELSE TryDown(t, pos, pat, k, RunLen(t, pos, pat[k].cls, pat[k].max))

TryDown(t, pos, pat, k, n) ==
    IF n < pat[k].min THEN -1
    ELSE LET r == MatchFrom(t, pos + n, pat, k + 1)
         IN  IF r >= 0 THEN r ELSE TryDown(t, pos, pat, k, n - 1)

\* pattern.finditer(full_text): the matched texts, left to right without overlap
RECURSIVE FindIter(_, _, _)
FindIter(t, pat, from) ==
    IF from > Len(t) THEN <<>>
    ELSE LET e == MatchFrom(t, from, pat, 1)
         IN  IF e < 0 THEN FindIter(t, pat, from + 1)
             ELSE IF e = from THEN << <<>> >> \o FindIter(t, pat, from + 1)
             ELSE << Slice(t, from, e) >> \o FindIter(t, pat, e)

\* re.sub(r'\.(?=[^@]*@)', '', t): the dots that have an "@" behind them go
RECURSIVE StripDotsBeforeAt(_)
StripDotsBeforeAt(t) ==
    IF t = <<>> THEN t
    ELSE IF Head(t) = "." /\ \E k \in 2..Len(t) : t[k] = "@"
         THEN StripDotsBeforeAt(Tail(t))
         ELSE <<Head(t)>> \o StripDotsBeforeAt(Tail(t))

\* re.sub(r'[\s\-\(\)\.\+]', '', phone)
RECURSIVE StripPunctuation(_)
StripPunctuation(t) ==
    IF t = <<>> THEN t
    ELSE IF Head(t) \in {" ", "-", "(", ")", ".", "+"} THEN StripPunctuation(Tail(t))
    ELSE <<Head(t)>> \o StripPunctuation(Tail(t))

\* a covered set that keeps the originals in the letter case they came in
CoveredOfExact(rs) ==
    {rs[k].original : k \in 1..Len(rs)}

\* covered, as built from the list passed in
CoveredOf(rs) ==
    {Lower(rs[k].original) : k \in 1..Len(rs)}
    \cup {StripDotsBeforeAt(Lower(rs[k].original)) :
             k \in {h \in 1..Len(rs) : \E c \in 1..Len(rs[h].original) : rs[h].original[c] = "@"}}

\* the count that makes every numbering start at 1
CountNothing(rs, types) == 0

\* sum(1 for r in replacements if r.get("type") in types)
CountOfType(rs, types) == Cardinality({k \in 1..Len(rs) : rs[k].type \in types})

\* str(n) for 0 <= n
RECURSIVE Decimal(_)
Decimal(n) ==
    LET d == <<"0", "1", "2", "3", "4", "5", "6", "7", "8", "9">>[(n % 10) + 1]
    IN  IF n < 10 THEN <<d>> ELSE Decimal(n \div 10) \o <<d>>

\* f"{n:0{w}d}"
RECURSIVE ZeroPadded(_, _)
ZeroPadded(t, w) == IF Len(t) >= w THEN t ELSE ZeroPadded(<<"0">> \o t, w)

\* f"person_{email_counter}@example.com"
EmailReplacement(n) ==
    <<"p", "e", "r", "s", "o", "n", "_">> \o Decimal(n)
        \o <<"@", "e", "x", "a", "m", "p", "l", "e", ".", "c", "o", "m">>

\* f"+00 00 000 {phone_counter:04d}"
PhoneReplacement(n) ==
    <<"+", "0", "0", " ", "0", "0", " ", "0", "0", "0", " ">> \o ZeroPadded(Decimal(n), 4)

\* f"ID_{id_counter:06d}"
IdReplacement(n) == <<"I", "D", "_">> \o ZeroPadded(Decimal(n), 6)

\* the state the loops of the safety net work on
NetState(rs, cov, n) == [list |-> rs, covered |-> cov, counter |-> n]

\* "for match in email_pattern.finditer(full_text)", from match k on
RECURSIVE EmailLoop(_, _, _)
EmailLoop(st, ms, k) ==
    IF k > Len(ms) THEN st
    ELSE IF Lower(ms[k]) \notin st.covered
         THEN EmailLoop(NetState(Append(st.list, [original |-> ms[k], type |-> "email",
                                                  replacement |-> EmailReplacement(st.counter)]),
                                 st.covered \cup {Lower(ms[k])}, st.counter + 1), ms, k + 1)
         ELSE EmailLoop(st, ms, k + 1)

\* "for match in pattern.finditer(full_text)" of one phone pattern, from match k on
RECURSIVE PhoneLoop(_, _, _)
PhoneLoop(st, ms, k) ==
    IF k > Len(ms) THEN st
    ELSE LET phone == Strip(ms[k])
         IN  IF Len(StripPunctuation(phone)) < 7 THEN PhoneLoop(st, ms, k + 1)
             ELSE IF Lower(phone) \notin st.covered
             THEN PhoneLoop(NetState(Append(st.list, [original |-> phone, type |-> "phone",
                                                      replacement |-> PhoneReplacement(st.counter)]),
                                     st.covered \cup {Lower(phone)}, st.counter + 1), ms, k + 1)
             ELSE PhoneLoop(st, ms, k + 1)

\* "for pattern in phone_patterns", from pattern j on
RECURSIVE PhonePatternsLoop(_, _, _)
PhonePatternsLoop(st, t, j) ==
    IF j > Len(PhonePatterns) THEN st
    ELSE PhonePatternsLoop(PhoneLoop(st, FindIter(t, PhonePatterns[j], 0), 1), t, j + 1)

\* "for match in pattern.finditer(full_text)" of one NIC pattern, from match k on
RECURSIVE NicLoop(_, _, _)
NicLoop(st, ms, k) ==
    IF k > Len(ms) THEN st
    ELSE IF Lower(ms[k]) \notin st.covered
         THEN NicLoop(NetState(Append(st.list, [original |-> ms[k], type |-> "id_number",
                                                replacement |-> IdReplacement(st.counter)]),
                               st.covered \cup {Lower(ms[k])}, st.counter + 1), ms, k + 1)
         ELSE NicLoop(st, ms, k + 1)

\* "for pattern in nic_patterns", from pattern j on
RECURSIVE NicPatternsLoop(_, _, _)
NicPatternsLoop(st, t, j) ==
    IF j > Len(NicPatterns) THEN st
    ELSE NicPatternsLoop(NicLoop(st, FindIter(t, NicPatterns[j], 0), 1), t, j + 1)

IdTypes == {"id_number", "nic", "passport", "ssn"}

\* _apply_regex_safety_net as a function of its arguments: the list it returns
ApplyRegexSafetyNet(t, rs) ==
    LET e == EmailLoop(NetState(rs, CoveredOf(rs), CountOfType(rs, {"email"}) + 1),
                       FindIter(t, EmailPattern, 0), 1)
        p == PhonePatternsLoop(NetState(e.list, e.covered, CountOfType(rs, {"phone"}) + 1), t, 1)
        n == NicPatternsLoop(NetState(p.list, p.covered, CountOfType(p.list, IdTypes) + 1), t, 1)
    IN  n.list

\* the pieces the texts of the safety net are built from: e-mail addresses that
\* differ in dots and letter case, phone numbers, identity numbers, a year, a word
NetTokens ==
    { <<"a", ".", "b", "@", "x", ".", "a", "b">>,
      <<"a", "b", "@", "x", ".", "a", "b">>,
      <<"A", "B", "@", "x", ".", "a", "b">>,
      <<"0", "7", "7", "1", "2", "3", "4", "5", "6", "7">>,
      <<"9", "1", "2", "3", "4", "5", "6", "7", "8", "V">>,
      <<"9", "1", "2", "3", "4", "5", "6", "7", "8", "v">>,
      <<"8", "1", "2", "3", "4", "5", "6", "7", "8", "X">>,
      <<"2", "0", "0", "0", "1", "2", "3", "4", "5", "6", "7", "8">>,
      <<"+", "9", "4", " ", "7", "7", " ", "5", "2", "3", " ", "4", "5", "6", "7">>,
      <<"0", "7", "7", "-", "5", "2", "3", "-", "4", "5", "6", "7">>,
      <<"2", "0", "2", "4">>,
      <<"x">> }

\* the tokens ts with a space between neighbours
RECURSIVE JoinAll(_)
JoinAll(ts) ==
    IF Len(ts) <= 1 THEN ConcatAll(ts) ELSE Head(ts) \o <<" ">> \o JoinAll(Tail(ts))

\* up to MaxTokens tokens with a space between them; the empty text
NetTexts == UNION {{JoinAll(ts) : ts \in [1..n -> NetTokens]} : n \in 0..MaxTokens}

\* entries a list passed to the safety net may hold
NetEntryList ==
    << [original |-> <<"a", "b", "@", "x", ".", "a", "b">>, type |-> "email", replacement |-> EmailReplacement(1)],
      [original |-> <<"A", ".", "B", "@", "x", ".", "a", "b">>, type |-> "email", replacement |-> EmailReplacement(1)],
      [original |-> <<"0", "7", "7", "1", "2", "3", "4", "5", "6", "7">>, type |-> "phone", replacement |-> PhoneReplacement(1)],
      [original |-> <<"9", "1", "2", "3", "4", "5", "6", "7", "8", "V">>, type |-> "nic", replacement |-> IdReplacement(1)],
      [original |-> <<"b", "@", "x", ".", "a", "b">>, type |-> "email", replacement |-> EmailReplacement(2)],
      [original |-> <<"x">>, type |-> "person", replacement |-> <<"P", "_", "1">>] >>

NetEntries == { NetEntryList[k] : k \in DOMAIN NetEntryList }

\* the entries of NetEntryList at the indices in S, in the order of the list
PickEntries(S) ==
    [k \in 1..Cardinality(S) |->
        NetEntryList[CHOOSE i \in S : Cardinality({j \in S : j < i}) = k - 1]]

\* lists of up to MaxCovered different entries
NetLists ==
    { PickEntries(S) : S \in {T \in SUBSET DOMAIN NetEntryList : Cardinality(T) <= MaxCovered} }

InitNet ==
    /\ op = "net"
    /\ impl = "FA"
    /\ raw = <<>>
    /\ repl = <<>>
    /\ pc = "net_start"
    /\ full_text \in NetTexts
    /\ replacements \in NetLists
    /\ given = replacements
    /\ covered = {}
    /\ email_counter = 0
    /\ phone_counter = 0
    /\ id_counter = 0
    /\ call = 1
    /\ first = <<>>
    /\ DocIdle
    /\ PdfIdle
    /\ AuxIdle
    /\ FontIdle

\* covered is built, the e-mail and phone counters are set
NetEnter ==
    /\ pc = "net_start"
    /\ covered' = CoveredOf(replacements)
    /\ email_counter' = CountOfType(replacements, {"email"}) + 1
    /\ phone_counter' = CountOfType(replacements, {"phone"}) + 1
    /\ pc' = "emails"
    /\ UNCHANGED <<fontVars, auxVars, op, impl, raw, repl, docVars, pdfVars, full_text, replacements,
                   id_counter, call, given, first>>

\* EMAIL DETECTION
NetEmails ==
    /\ pc = "emails"
    /\ LET st == EmailLoop(NetState(replacements, covered, email_counter),
                           FindIter(full_text, EmailPattern, 0), 1)
       IN  /\ replacements' = st.list
           /\ covered' = st.covered
           /\ email_counter' = st.counter
    /\ pc' = "phones"
    /\ UNCHANGED <<fontVars, auxVars, op, impl, raw, repl, docVars, pdfVars, full_text, phone_counter,
                   id_counter, call, given, first>>

\* PHONE NUMBER DETECTION
NetPhones ==
    /\ pc = "phones"
    /\ LET st == PhonePatternsLoop(NetState(replacements, covered, phone_counter), full_text, 1)
       IN  /\ replacements' = st.list
           /\ covered' = st.covered
           /\ phone_counter' = st.counter
    /\ pc' = "nics"
    /\ UNCHANGED <<fontVars, auxVars, op, impl, raw, repl, docVars, pdfVars, full_text, email_counter,
                   id_counter, call, given, first>>

\* NIC / ID NUMBER DETECTION
NetNics ==
    /\ pc = "nics"
    /\ LET st == NicPatternsLoop(NetState(replacements, covered,
                                          CountOfType(replacements, IdTypes) + 1), full_text, 1)
       IN  /\ replacements' = st.list
           /\ covered' = st.covered
           /\ id_counter' = st.counter
    /\ pc' = "net_return"
    /\ UNCHANGED <<fontVars, auxVars, op, impl, raw, repl, docVars, pdfVars, full_text, email_counter,
                   phone_counter, call, given, first>>

\* "return replacements" of the first call; the safety net is called again on that list
NetReturn ==
    /\ pc = "net_return"
    /\ call = 1
    /\ first' = replacements
    /\ call' = 2
    /\ pc' = "net_start"
    /\ UNCHANGED <<fontVars, auxVars, op, impl, raw, repl, docVars, pdfVars, full_text, replacements, covered,
                   email_counter, phone_counter, id_counter, given>>

\* "return replacements" of the second call
NetReturnAgain ==
    /\ pc = "net_return"
    /\ call = 2
    /\ pc' = "net_done"
    /\ UNCHANGED <<fontVars, auxVars, op, impl, raw, repl, docVars, pdfVars, netVars>>

NextNet ==
    \/ NetEnter
    \/ NetEmails
    \/ NetPhones
    \/ NetNics
    \/ NetReturn
    \/ NetReturnAgain

SpecNet == InitNet /\ [][NextNet]_vars

-----------------------------------------------------------------------------
(* The font of the redrawn text: _map_to_base14_font and
   _get_text_properties_at_rect of src/function_app.py *)

UpperCaseLetters == <<"A", "B", "C", "D", "E", "F", "G", "H", "I", "J", "K", "L", "M", "N", "O", "P", "Q", "R", "S", "T", "U", "V", "W", "X", "Y", "Z">>
LowerCaseLetters == <<"a", "b", "c", "d", "e", "f", "g", "h", "i", "j", "k", "l", "m", "n", "o", "p", "q", "r", "s", "t", "u", "v", "w", "x", "y", "z">>

\* font_name.lower()
LowerName(t) ==
    [k \in 1..Len(t) |->
        IF \E j \in 1..Len(UpperCaseLetters) : UpperCaseLetters[j] = t[k]
        THEN LowerCaseLetters[CHOOSE j \in 1..Len(UpperCaseLetters) : UpperCaseLetters[j] = t[k]]
        ELSE t[k]]

\* "flags & b" is not zero, for b a power of two
HasBit(n, b) == (n \div b) % 2 = 1

\* the if-chain of _map_to_base14_font on the lower-cased name fn
Base14Face(fn, is_bold, is_italic, mono, serif) ==
    IF \/ Contains(fn, <<"c", "o", "u", "r", "i", "e", "r">>)
       \/ Contains(fn, <<"m", "o", "n", "o">>)
       \/ Contains(fn, <<"c", "o", "n", "s", "o", "l", "a", "s">>)
       \/ Contains(fn, <<"m", "e", "n", "l", "o">>)
       \/ mono
    THEN (IF is_bold /\ is_italic THEN "cobi"
          ELSE IF is_bold THEN "cobo"
          ELSE IF is_italic THEN "coit"
          ELSE "cour")
    ELSE IF \/ Contains(fn, <<"t", "i", "m", "e", "s">>)
            \/ Contains(fn, <<"s", "e", "r", "i", "f">>)
            \/ Contains(fn, <<"g", "e", "o", "r", "g", "i", "a">>)
            \/ Contains(fn, <<"g", "a", "r", "a", "m", "o", "n", "d">>)
            \/ serif
    THEN (IF is_bold /\ is_italic THEN "tibi"
          ELSE IF is_bold THEN "tibo"
          ELSE IF is_italic THEN "tiit"
          ELSE "tiro")
    ELSE IF Contains(fn, <<"s", "y", "m", "b", "o", "l">>)
    THEN "symb"
    ELSE IF \/ Contains(fn, <<"z", "a", "p", "f">>)
            \/ Contains(fn, <<"d", "i", "n", "g", "b", "a", "t">>)
    THEN "zadb"
    ELSE (IF is_bold /\ is_italic THEN "hebi"
          ELSE IF is_bold THEN "hebo"
          ELSE IF is_italic THEN "heit"
          ELSE "helv")

\* is_bold and is_italic of _map_to_base14_font
IsBold(fn, n) ==
    \/ Contains(fn, <<"b", "o", "l", "d">>)
    \/ Contains(fn, <<"b", "l", "a", "c", "k">>)
    \/ Contains(fn, <<"h", "e", "a", "v", "y">>)
    \/ HasBit(n, 16)

IsItalic(fn, n) ==
    \/ Contains(fn, <<"i", "t", "a", "l", "i", "c">>)
    \/ Contains(fn, <<"o", "b", "l", "i", "q", "u", "e">>)
    \/ HasBit(n, 2)

\* the mapping that looks at the font name alone
MapByNameOnly(name, n) ==
    LET fn == LowerName(name)
    IN  Base14Face(fn, IsBold(fn, 0), IsItalic(fn, 0), FALSE, FALSE)

\* _map_to_base14_font(font_name, flags)
MapToBase14Font(name, n) ==
    LET fn == LowerName(name)
    IN  Base14Face(fn, IsBold(fn, n), IsItalic(fn, n), HasBit(n, 8), HasBit(n, 4))

\* fitz.Rect as <<x0, y0, x1, y1>>; "span_rect & rect" is the intersection
Intersection(a, b) ==
    << Max({a[1], b[1]}), Max({a[2], b[2]}), Min({a[3], b[3]}), Min({a[4], b[4]}) >>

\* Rect.is_empty
IsEmpty(r) == r[1] >= r[3] \/ r[2] >= r[4]

\* overlap.width * overlap.height
Area(r) == (r[3] - r[1]) * (r[4] - r[2])

\* the three nested loops of _get_text_properties_at_rect from span k on: the
\* index of best_span (0 for None) with best_overlap so far
RECURSIVE BestSpan(_, _, _, _, _)
BestSpan(ss, r, k, best_span, best_overlap) ==
    IF k > Len(ss) THEN best_span
    ELSE LET overlap == Intersection(ss[k].bbox, r)
         IN  IF IsEmpty(overlap) THEN BestSpan(ss, r, k + 1, best_span, best_overlap)
             ELSE IF Area(overlap) > best_overlap
                  THEN BestSpan(ss, r, k + 1, k, Area(overlap))
                  ELSE BestSpan(ss, r, k + 1, best_span, best_overlap)

\* 0xRRGGBB to (r, g, b), each channel in 255ths
ColorOf(color_int) ==
    << (color_int \div 65536) % 256, (color_int \div 256) % 256, color_int % 256 >>

\* _get_text_properties_at_rect(page, rect), the page given by its spans
GetTextPropertiesAtRect(ss, r) ==
    LET best_span == BestSpan(ss, r, 1, 0, 0)
    IN  IF best_span # 0
        THEN [fontname |-> MapToBase14Font(ss[best_span].font, ss[best_span].flags),
              fontsize |-> ss[best_span].size,
              text_color |-> ColorOf(ss[best_span].color),
              flags |-> ss[best_span].flags,
              original_font |-> ss[best_span].font]
        ELSE DefaultProps

\* font names: a family and a style
FontFamilies ==
    { <<"A", "r", "i", "a", "l">>,
      <<"C", "o", "u", "r", "i", "e", "r">>,
      <<"C", "O", "U", "R", "I", "E", "R">>,
      <<"D", "e", "j", "a", "V", "u", "S", "a", "n", "s", "M", "o", "n", "o">>,
      <<"C", "o", "n", "s", "o", "l", "a", "s">>,
      <<"M", "e", "n", "l", "o">>,
      <<"T", "i", "m", "e", "s">>,
      <<"N", "o", "t", "o", "S", "e", "r", "i", "f">>,
      <<"G", "e", "o", "r", "g", "i", "a">>,
      <<"G", "a", "r", "a", "m", "o", "n", "d">>,
      <<"S", "y", "m", "b", "o", "l">>,
      <<"Z", "a", "p", "f", "C", "h", "a", "n", "c", "e", "r", "y">>,
      <<"D", "i", "n", "g", "b", "a", "t", "s">>,
      <<"S", "y", "m", "b", "o", "l", "M", "o", "n", "o", "s", "p", "a", "c", "e", "d">> }

FontStyles ==
    { <<>>,
      <<"-", "B", "o", "l", "d">>,
      <<"-", "B", "l", "a", "c", "k">>,
      <<"-", "H", "e", "a", "v", "y">>,
      <<"-", "I", "t", "a", "l", "i", "c">>,
      <<"-", "O", "b", "l", "i", "q", "u", "e">>,
      <<"-", "B", "o", "l", "d", "I", "t", "a", "l", "i", "c">> }

FontNames == { f \o st : f \in FontFamilies, st \in FontStyles }

\* the flags of a span: superscript 1, italic 2, serif 4, monospace 8, bold 16
FlagValues == 0..31

\* most spans on a page
MaxSpans == 2

\* boxes of spans: two side by side on one line, one on a taller line below
SpanBoxes == { <<0, 0, 2, 1>>, <<2, 0, 5, 1>>, <<0, 1, 4, 3>> }

\* font, flags, size and colour of a span
SpanStyles ==
    { [font |-> <<"A", "r", "i", "a", "l">>, flags |-> 0, size |-> 9, color |-> 16711680],
      [font |-> <<"C", "o", "u", "r", "i", "e", "r", "-", "B", "o", "l", "d">>, flags |-> 24, size |-> 12, color |-> 33023],
      [font |-> <<"T", "i", "m", "e", "s", "-", "I", "t", "a", "l", "i", "c">>, flags |-> 6, size |-> 11, color |-> 0],
      [font |-> <<"C", "a", "l", "i", "b", "r", "i">>, flags |-> 16, size |-> 14, color |-> 8421504] }

Spans ==
    { [bbox |-> b, font |-> st.font, flags |-> st.flags, size |-> st.size, color |-> st.color] :
        b \in SpanBoxes, st \in SpanStyles }

SpanLists == UNION {[1..n -> Spans] : n \in 0..MaxSpans}

\* rectangles of search hits: over both spans of the first line (more of the second;
\* as much of each), touching a span's edge, over both lines, off the text
HitRects ==
    { <<1, 0, 4, 1>>, <<1, 0, 3, 1>>, <<2, 0, 4, 1>>, <<1, 0, 3, 2>>, <<6, 0, 7, 1>> }

InitMap ==
    /\ op = "map"
    /\ impl = "FA"
    /\ raw = <<>>
    /\ repl = <<>>
    /\ pc = "map_start"
    /\ font_name \in FontNames
    /\ flags \in FlagValues
    /\ fontname = ""
    /\ spans = <<>>
    /\ inst_rect = <<0, 0, 0, 0>>
    /\ props = DefaultProps
    /\ redact = NoRedact
    /\ DocIdle
    /\ PdfIdle
    /\ NetIdle
    /\ AuxIdle

\* one matched rectangle of one entry on a page with spans
InitRedraw ==
    /\ op = "redraw"
    /\ impl \in {"NP", "FA"}
    /\ raw = <<>>
    /\ repl = << [original |-> <<"a">>, replacement |-> <<"x">>] >>
    /\ pc = "hit"
    /\ font_name = <<>>
    /\ flags = 0
    /\ fontname = ""
    /\ spans \in SpanLists
    /\ inst_rect \in HitRects
    /\ props = DefaultProps
    /\ redact = NoRedact
    /\ DocIdle
    /\ PdfIdle
    /\ NetIdle
    /\ AuxIdle

InitFont == InitMap \/ InitRedraw

\* a call of _map_to_base14_font
MapFont ==
    /\ pc = "map_start"
    /\ fontname' = MapToBase14Font(font_name, flags)
    /\ pc' = "map_done"
    /\ UNCHANGED <<op, impl, raw, repl, docVars, pdfVars, netVars, auxVars,
                   font_name, flags, spans, inst_rect, props, redact>>

\* props = _get_text_properties_at_rect(page, inst) of sanitize_pdf_in_place
DetectProps ==
    /\ pc = "hit"
    /\ impl = "FA"
    /\ props' = GetTextPropertiesAtRect(spans, inst_rect)
    /\ pc' = "props"
    /\ UNCHANGED <<op, impl, raw, repl, docVars, pdfVars, netVars, auxVars,
                   font_name, flags, fontname, spans, inst_rect, redact>>

\* page.add_redact_annot(inst, ...) of sanitize_pdf_in_place
AddRedactAnnotStyled ==
    /\ pc = "props"
    /\ redact' = [text |-> repl[1].replacement,
                  fontname |-> props.fontname,
                  fontsize |-> props.fontsize,
                  text_color |-> props.text_color,
                  fill |-> <<255, 255, 255>>,
                  align |-> "left"]
    /\ pc' = "registered"
    /\ UNCHANGED <<op, impl, raw, repl, docVars, pdfVars, netVars, auxVars,
                   font_name, flags, fontname, spans, inst_rect, props>>

\* page.add_redact_annot(rect, ...) of sanitize_pdf_bytes: fontname="helv",
\* fontsize=11, fill=(1, 1, 1); text_color and align are left at the library's
\* defaults, black and left
AddRedactAnnotPlain ==
    /\ pc = "hit"
    /\ impl = "NP"
    /\ redact' = [text |-> repl[1].replacement,
                  fontname |-> "helv",
                  fontsize |-> 11,
                  text_color |-> <<0, 0, 0>>,
                  fill |-> <<255, 255, 255>>,
                  align |-> "left"]
    /\ pc' = "registered"
    /\ UNCHANGED <<op, impl, raw, repl, docVars, pdfVars, netVars, auxVars,
                   font_name, flags, fontname, spans, inst_rect, props>>

NextFont ==
    \/ MapFont
    \/ DetectProps
    \/ AddRedactAnnotStyled
    \/ AddRedactAnnotPlain

SpecFont == InitFont /\ [][NextFont]_vars

-----------------------------------------------------------------------------
(* Vocabulary of the properties *)

\* a short (at most 3 characters) all-uppercase alphabetic token such as "IT"
IsShortCapsToken(o) ==
    Len(o) \in 1..3 /\ \A k \in 1..Len(o) : o[k] \in {"A", "B", "V", "X"}

SameLetter(c, d) ==
    \/ c = d
    \/ <<c, d>> \in {<<"a", "A">>, <<"A", "a">>, <<"b", "B">>, <<"B", "b">>,
                     <<"v", "V">>, <<"V", "v">>, <<"x", "X">>, <<"X", "x">>}

\* o occurs in t at offset s, whatever the letter case
OccursAt(o, t, s) ==
    /\ s >= 0
    /\ s + Len(o) <= Len(t)
    /\ \A k \in 1..Len(o) : SameLetter(t[s + k], o[k])

\* letters, digits and the underscore make up words
WordCharacters ==
    {"a", "b", "v", "x", "A", "B", "V", "X", "_",
     "0", "1", "2", "3", "4", "5", "6", "7", "8", "9"}

\* o stands in t at offset s in its own letter case, as a word of its own
StandsAloneAt(o, t, s) ==
    /\ s >= 0
    /\ s + Len(o) <= Len(t)
    /\ \A k \in 1..Len(o) : t[s + k] = o[k]
    /\ s = 0 \/ t[s] \notin WordCharacters
    /\ s + Len(o) = Len(t) \/ t[s + Len(o) + 1] \notin WordCharacters

\* a occurs where the splicer (or the page search) of im looks for it
FoundAt(im, o, t, s) ==
    IF im = "NP" /\ IsShortCapsToken(o) THEN StandsAloneAt(o, t, s) ELSE OccursAt(o, t, s)

Found(im, o, t) == {s \in 0..Len(t) : FoundAt(im, o, t, s)}

\* the occurrences of o in t, read left to right without overlap
RECURSIVE OccurrencesFrom(_, _, _, _)
OccurrencesFrom(im, o, t, p) ==
    LET later == {s \in Found(im, o, t) : s >= p}
    IN  IF later = {} \/ Len(o) = 0 THEN {}
        ELSE {Min(later)} \cup OccurrencesFrom(im, o, t, Min(later) + Len(o))

Occurrences(im, o, t) == OccurrencesFrom(im, o, t, 0)

\* original a strictly contains original b
StrictlyContains(a, b) ==
    /\ Len(b) >= 1
    /\ Len(b) < Len(a)
    /\ \E s \in 0..Len(a) : OccursAt(b, a, s)

\* the origins s+1 .. s+n of the characters of an occurrence at offset s
OriginsAt(s, n) == [k \in 1..n |-> s + k]

Elems(q) == {q[k] : k \in 1..Len(q)}

\* the paragraph being processed, as it is and as it came in
CurRuns == doc[pi]
CurText == FullText(doc[pi])
InText == FullText(doc0[pi])

InSplicer == op = "docx" /\ pc \in {"loop", "returned"}

-----------------------------------------------------------------------------
(* C1 as stated: whenever original A strictly contains original B, every
   occurrence of A in the container's input text is rewritten as a whole by a
   splice for A, and no splice for B takes a character of an occurrence of A
   that was in the input. *)
C1_EveryOccurrenceWhole ==
    (op = "docx" /\ pc = "returned") =>
      \A i, j \in 1..Len(repl) :
        StrictlyContains(repl[i].original, repl[j].original) =>
          \A s \in Occurrences(impl, repl[i].original, InText) :
            LET occ == OriginsAt(s, Len(repl[i].original))
            IN  /\ \E n \in 1..Len(log) :
                     /\ repl[log[n].entry].original = repl[i].original
                     /\ log[n].origins = occ
                /\ \A n \in 1..Len(log) :
                     log[n].entry = j => Elems(log[n].origins) \cap Elems(occ) = {}

\* A is the one longest entry that has a match in the container's input text
LongestFound(i) ==
    /\ Found(impl, repl[i].original, InText) # {}
    /\ \A k \in 1..Len(repl) :
         (k # i /\ Found(impl, repl[k].original, InText) # {})
            => Len(repl[k].original) < Len(repl[i].original)

(* C1, amended: longest-first precedence. Whenever original A strictly contains
   original B and A is the longest entry with a match in the container's input
   text, the first splice of the pass is A's and rewrites the leftmost
   occurrence of A as a whole, and no splice for B ever takes a character of
   that occurrence. *)
C1_LongestFirstPrecedence ==
    InSplicer =>
      \A i, j \in 1..Len(repl) :
        (StrictlyContains(repl[i].original, repl[j].original) /\ LongestFound(i)) =>
          LET occ == OriginsAt(Min(Found(impl, repl[i].original, InText)),
                               Len(repl[i].original))
          IN  /\ log # <<>> => (log[1].entry = i /\ log[1].origins = occ)
              /\ pc = "returned" => log # <<>>
              /\ \A n \in 1..Len(log) :
                   log[n].entry = j => Elems(log[n].origins) \cap Elems(occ) = {}

\* the pass has rewritten A's leftmost occurrence and then applied B elsewhere
C1_Witness ==
    /\ op = "docx" /\ pc = "returned"
    /\ \E i, j \in 1..Len(repl) :
         /\ StrictlyContains(repl[i].original, repl[j].original)
         /\ LongestFound(i)
         /\ \E n \in 1..Len(log) : log[n].entry = i
         /\ \E n \in 1..Len(log) : log[n].entry = j

-----------------------------------------------------------------------------
\* the container's input text held in one single fragment
SingleFragment == << [text |-> InText, style |-> 1] >>

(* C2: matching is insensitive to fragmentation. When the splicer returns from a
   container, the container's concatenated text equals the concatenated text
   the same pass leaves in a container that holds the same input text in one
   single fragment. *)
C2_FragmentationInsensitive ==
    (op = "docx" /\ pc = "returned" /\ doc0[pi] # <<>>) =>
        CurText = FullText(ApplyReplacementsToParagraph(impl, SingleFragment, repl))

\* an occurrence that spanned two fragments has been rewritten
C2_Witness ==
    /\ op = "docx" /\ pc = "returned"
    /\ Len(doc0[pi]) >= 2
    /\ \E n \in 1..Len(log) : log[n].span >= 2
    /\ CurText # InText

-----------------------------------------------------------------------------
\* the offsets of full_text that run k of runs holds
OffsetsOf(runs, k) ==
    {x \in 0..Len(FullText(runs)) :
        /\ x >= Len(ConcatAll([h \in 1..(k - 1) |-> runs[h].text]))
        /\ x <  Len(ConcatAll([h \in 1..k |-> runs[h].text]))}

(* C4: a splice changes only the text of the fragments that overlap the match
   range [start, end): a fragment holding no offset of the range keeps its
   text, every fragment keeps its style handle, and over the whole pass the
   number and the order of the fragments of every container stay the same. *)
C4_SpliceFrame ==
    /\ (InSplicer /\ last.entry # 0) =>
          /\ Len(CurRuns) = Len(last.runs)
          /\ \A k \in 1..Len(last.runs) :
                /\ CurRuns[k].style = last.runs[k].style
                /\ OffsetsOf(last.runs, k) \cap (last.start..(last.end - 1)) = {}
                      => CurRuns[k].text = last.runs[k].text
    /\ op = "docx" =>
          /\ Len(doc) = Len(doc0)
          /\ \A p \in 1..Len(doc) :
                /\ Len(doc[p]) = Len(doc0[p])
                /\ \A k \in 1..Len(doc[p]) : doc[p][k].style = doc0[p][k].style

\* a match over two of three fragments has been spliced, one fragment emptied
C4_Witness ==
    /\ InSplicer
    /\ last.entry # 0
    /\ Len(last.runs) = 3
    /\ \E k \in 1..3 : OffsetsOf(last.runs, k) \cap (last.start..(last.end - 1)) = {}
    /\ \E k \in 1..3 : last.runs[k].text # <<>> /\ CurRuns[k].text = <<>>

-----------------------------------------------------------------------------
(* C3 as stated: when the splicer returns from a container and no entry reached
   the bound of 50 iterations there, the container's concatenated text holds
   no match of any entry's pattern. *)
C3_NoMatchRemains ==
    (op = "docx" /\ pc = "returned" /\ hit = {}) =>
        \A i \in 1..Len(repl) : Found(impl, repl[i].original, CurText) = {}

(* C3, amended: an entry that has finished on the container without reaching
   the bound has no match in the container's concatenated text unless a splice
   of an entry later in the list produced one: the text before that splice
   held no match of the entry and the text after it holds one. *)
C3_NoMatchUnlessMadeLater ==
    InSplicer =>
        \A i \in 1..Len(repl) :
            (i < ri /\ i \notin hit /\ Found(impl, repl[i].original, CurText) # {}) =>
                \E n \in 1..Len(log) : log[n].entry > i /\ i \in log[n].made

\* the pass has rewritten something, no entry reached the bound, no match is left
C3_Witness ==
    /\ op = "docx" /\ pc = "returned"
    /\ hit = {}
    /\ Len(log) >= 2
    /\ \A i \in 1..Len(repl) : Found(impl, repl[i].original, CurText) = {}

-----------------------------------------------------------------------------
\* the text the latest splice found, and the text it left
LastBefore == FullText(last.runs)
LastMatched == Slice(LastBefore, last.start, last.end)

(* C5 as stated: for an entry whose original is a short all-uppercase
   alphabetic token, every splice rewrites an occurrence that stands alone, in
   the original's own letter case and between word boundaries, and when the
   entry has finished without reaching the bound and nothing was spliced after
   it, no such standalone occurrence is left. *)
C5_ShortTokenStandalone ==
    InSplicer =>
      /\ (last.entry # 0 /\ IsShortCapsToken(repl[last.entry].original)) =>
             StandsAloneAt(repl[last.entry].original, LastBefore, last.start)
      /\ \A i \in 1..Len(repl) :
            ( /\ IsShortCapsToken(repl[i].original)
              /\ i < ri /\ i \notin hit
              /\ \A n \in 1..Len(log) : log[n].entry <= i )
            => \A s \in 0..Len(CurText) : ~StandsAloneAt(repl[i].original, CurText, s)

-----------------------------------------------------------------------------
\* the input occurrence of o at offset s is still in the text, untouched
Survives(o, s) ==
    \E q \in 0..Len(CurText) :
        Slice(FullText(prov), q, q + Len(o)) = OriginsAt(s, Len(o))

(* C6 as stated: for every entry whose original is not a short all-uppercase
   token, no occurrence of the original in the input text, in whatever letter
   case, is left untouched when the splicer returns, and each of its splices
   writes the replacement verbatim. *)
C6_EveryOccurrenceAnyCase ==
    (op = "docx" /\ pc = "returned") =>
      /\ \A i \in 1..Len(repl) :
            ~IsShortCapsToken(repl[i].original) =>
                \A s \in 0..Len(InText) :
                    OccursAt(repl[i].original, InText, s) => ~Survives(repl[i].original, s)
      /\ (last.entry # 0 /\ ~IsShortCapsToken(repl[last.entry].original)) =>
            CurText = Slice(LastBefore, 0, last.start)
                        \o repl[last.entry].replacement
                        \o Slice(LastBefore, last.end, Len(LastBefore))

(* C6, amended: case-insensitive default. For every entry whose original is
   not a short all-uppercase token, each splice rewrites an occurrence of the
   original in whatever letter case and writes the replacement verbatim, and
   when the entry has finished without reaching the bound of 50 iterations
   (and nothing was spliced after it) no occurrence in any letter case is
   left in the text. *)
C6_CaseInsensitiveDefault ==
    InSplicer =>
      /\ (last.entry # 0 /\ ~IsShortCapsToken(repl[last.entry].original)) =>
            /\ OccursAt(repl[last.entry].original, LastBefore, last.start)
            /\ last.end = last.start + Len(repl[last.entry].original)
            /\ CurText = Slice(LastBefore, 0, last.start)
                          \o repl[last.entry].replacement
                          \o Slice(LastBefore, last.end, Len(LastBefore))
      /\ \A i \in 1..Len(repl) :
            ( /\ ~IsShortCapsToken(repl[i].original)
              /\ i < ri /\ i \notin hit
              /\ \A n \in 1..Len(log) : log[n].entry <= i )
            => \A s \in 0..Len(CurText) : ~OccursAt(repl[i].original, CurText, s)

\* an occurrence in another letter case than the original's has been rewritten
C6_Witness ==
    /\ InSplicer
    /\ last.entry # 0
    /\ ~IsShortCapsToken(repl[last.entry].original)
    /\ LastMatched # repl[last.entry].original
    /\ OccursAt(repl[last.entry].original, LastBefore, last.start)

-----------------------------------------------------------------------------
\* every entry has been searched for on the current page
PageProcessed == op = "pdf" /\ pc = "search" /\ ei > Len(repl)

\* the rectangles the searches for entry e returned on the current page
HitsOf(e) ==
    {<<n, k>> \in (1..Len(plog)) \X (1..MaxLen) :
        plog[n].entry = e /\ k <= Len(plog[n].hits)}

\* A is the one longest entry with an occurrence in the page's input text
LongestOnPage(i) ==
    \A k \in 1..Len(repl) :
        (k # i /\ Occurrences("FA", repl[k].original, pages0[pn]) # {})
            => Len(repl[k].original) < Len(repl[i].original)

(* C7 as stated: anti-duplication on pages. When a page whose text holds one
   occurrence of original A (the longest original found on the page) has been
   processed with a set that also holds an original B contained in A, exactly
   one replacement has been drawn for A and no rectangle returned by the later
   search for B covers a character of the region where A's replacement was
   drawn. *)
C7_OneReplacementNoRematch ==
    PageProcessed =>
      \A i, j \in 1..Len(repl) :
        ( /\ StrictlyContains(repl[i].original, repl[j].original)
          /\ Cardinality(Occurrences("FA", repl[i].original, pages0[pn])) = 1
          /\ LongestOnPage(i) )
        => /\ Cardinality(HitsOf(i)) = 1
           /\ \A h \in HitsOf(j) : (0 - i) \notin Elems(plog[h[1]].hits[h[2]])

-----------------------------------------------------------------------------
(* C9 as stated: no-op safety. A sanitize operation given zero entries leaves
   the document as it was passed in - every fragment text, every page, and the
   metadata, scripts, attachments and hidden text of the file - and every
   statistic is zero. *)
C9_ZeroEntriesUnmodified ==
    raw = <<>> =>
        /\ doc = doc0
        /\ pages = pages0
        /\ ~scrubbed
        /\ stats.total_replacements = 0 /\ stats.paragraphs_changed = 0
        /\ stats.table_cells_changed = 0 /\ stats.header_footer_changed = 0
        /\ total_redactions = 0

(* C9, amended: a sanitize operation given zero entries leaves every fragment
   text and every page text as it was passed in and reports every statistic
   as zero; the file itself comes back untouched except from
   sanitize_pdf_in_place, which has no shortcut for an empty set and still
   strips metadata, scripts, attachments and hidden text before saving. *)
C9_ZeroEntriesNoTextChange ==
    raw = <<>> =>
        /\ doc = doc0
        /\ pages = pages0
        /\ stats.total_replacements = 0 /\ stats.paragraphs_changed = 0
        /\ stats.table_cells_changed = 0 /\ stats.header_footer_changed = 0
        /\ total_redactions = 0
        /\ scrubbed => (op = "pdf" /\ impl = "FA" /\ pc = "done")
        /\ (pc = "done" /\ op = "pdf" /\ impl = "FA") => scrubbed

\* a call with zero entries has returned a document that holds text
C9_Witness ==
    /\ raw = <<>>
    /\ pc = "done"
    /\ \/ op = "docx" /\ doc # <<>> /\ doc[1] # <<>> /\ doc[1][1].text # <<>>
       \/ op = "pdf" /\ impl = "NP" /\ pages[1] # <<>>

-----------------------------------------------------------------------------
\* the entries the list is built from: src/new/PII/function.py drops the incomplete ones
ListInput == IF impl = "NP"
         THEN SelectSeq(raw, LAMBDA r : r.original # <<"None">> /\ r.replacement # <<"None">>)
         ELSE raw

OfLength(q, n) == SelectSeq(q, LAMBDA r : Len(r.original) = n)

(* C10: the list handed to the splicer and to the page loop is ordered by
   descending length of original, entries of equal length in their input
   order; hence an entry whose original is a proper substring of another
   entry's original stands after it, and the splices and the searches on a
   container or page happen in list order. *)
C10_LongestFirstStable ==
    pc # "start" =>
        /\ \A k \in 1..(Len(repl) - 1) :
              Len(repl[k].original) >= Len(repl[k + 1].original)
        /\ Len(repl) = Len(ListInput)
        /\ \A n \in 0..(MaxLen + 1) : OfLength(repl, n) = OfLength(ListInput, n)
        /\ \A i, j \in 1..Len(repl) :
              StrictlyContains(repl[i].original, repl[j].original) => i < j
        /\ \A n \in 1..(Len(log) - 1) : log[n].entry <= log[n + 1].entry
        /\ \A n \in 1..(Len(plog) - 1) : plog[n].entry < plog[n + 1].entry

\* a list of three was reordered, two entries of equal length kept their order
C10_Witness ==
    /\ pc = "done"
    /\ Len(repl) = 3
    /\ repl # raw
    /\ Len(repl[1].original) = Len(repl[2].original)
    /\ repl[1] # repl[2]
    /\ \E a, b \in 1..3 : a < b /\ raw[a] = repl[1] /\ raw[b] = repl[2]

-----------------------------------------------------------------------------
\* the entries the first call appended to the list it was given
Appended == {k \in 1..Len(first) : k > Len(given)}

(* C8: idempotence of the safety net. Applying the safety net to the text and
   to the list its first application returned appends nothing and changes no
   entry: the second call returns the list the first call returned. The first
   call keeps the entries it was given, appends no original twice (letter case
   ignored) and none the list already held, and its result is a function of
   the text and the list alone. *)
C8_SafetyNetIdempotent ==
    /\ (op = "net" /\ call = 2) => replacements = first
    /\ (op = "net" /\ call = 2) =>
          /\ Len(first) >= Len(given)
          /\ SubSeq(first, 1, Len(given)) = given
          /\ \A i, j \in Appended :
                i # j => Lower(first[i].original) # Lower(first[j].original)
          /\ \A i \in Appended : \A k \in 1..Len(given) :
                Lower(first[i].original) # Lower(given[k].original)
    /\ (op = "net" /\ pc = "net_done") => first = ApplyRegexSafetyNet(full_text, given)

\* both calls have returned, the first had appended two entries to a list that held one
C8_Witness ==
    /\ op = "net"
    /\ pc = "net_done"
    /\ given # <<>>
    /\ Len(first) >= Len(given) + 2


-----------------------------------------------------------------------------
\* offsets [FragStart, FragEnd) of fragment k in the concatenated text
FragStart(runs, k) == Len(ConcatAll([h \in 1..(k - 1) |-> runs[h].text]))
FragEnd(runs, k) == FragStart(runs, k) + Len(runs[k].text)

\* the fragments that overlap the range [s, e)
Overlapping(runs, s, e) ==
    {k \in 1..Len(runs) : FragStart(runs, k) < e /\ FragEnd(runs, k) > s}

(* C13: one splice of a match [start, end) in the concatenated text T. If one
   fragment overlaps the range it becomes prefix + replacement + suffix;
   otherwise the first overlapping fragment becomes its pre-match prefix
   followed by the replacement, every overlapping fragment between the first
   and the last becomes empty, and the last keeps only its post-match suffix.
   In both cases the new text is T[0:start] + replacement + T[end:]. *)
C13_SpliceShape ==
    (InSplicer /\ last.entry # 0) =>
        LET old == last.runs
            T   == FullText(old)
            r   == repl[last.entry].replacement
            O   == Overlapping(old, last.start, last.end)
            f   == Min(O)
            l   == Max(O)
            pre  == Slice(old[f].text, 0, last.start - FragStart(old, f))
            post == Slice(old[l].text, last.end - FragStart(old, l), Len(old[l].text))
        IN  /\ O # {}
            /\ Cardinality(O) = 1 => CurRuns[f].text = pre \o r \o post
            /\ Cardinality(O) > 1 =>
                  /\ CurRuns[f].text = pre \o r
                  /\ \A k \in O \ {f, l} : CurRuns[k].text = <<>>
                  /\ CurRuns[l].text = post
            /\ CurText = Slice(T, 0, last.start) \o r \o Slice(T, last.end, Len(T))

\* a splice over three fragments: the first takes the replacement, the last is trimmed
C13_Witness ==
    /\ InSplicer
    /\ last.entry # 0
    /\ Cardinality(Overlapping(last.runs, last.start, last.end)) = 3
    /\ last.runs[3].text # <<>>
    /\ CurRuns[3].text = <<>>
    /\ CurRuns[1].text # <<>>

-----------------------------------------------------------------------------
\* splice n of the pass rewrote only characters that earlier splices of the pass
\* had written, all of them splices of entries with a longer original
InsideLongerReplacement(n) ==
    /\ n > 1
    /\ log[n].origins # <<>>
    /\ \A j \in 1..Len(log[n].origins) : log[n].origins[j] = 0
    /\ \A m \in 1..(n - 1) :
          Len(repl[log[m].entry].original) > Len(repl[log[n].entry].original)

(* C15 as stated: during one pass over a container, no splice rewrites
   characters that are all part of replacement text written earlier in the
   pass by a longer entry. *)
C15_NoSpliceInsideReplacement ==
    InSplicer => \A n \in 1..Len(log) : ~InsideLongerReplacement(n)

-----------------------------------------------------------------------------
\* the text of a page after entries 1..n, each searched on the text the entries
\* before it left and applied before the next one is searched
RECURSIVE IncrementalText(_, _)
IncrementalText(t0, n) ==
    IF n = 0 THEN t0
    ELSE LET t    == IncrementalText(t0, n - 1)
             inst == InstancesOf(impl, t, repl[n].original)
             as   == [k \in 1..Len(inst) |-> [rect |-> inst[k], text |-> repl[n].replacement]]
         IN  ApplyAnnots(t, as, Len(as))

(* C17: incremental application on pages. No search runs while an earlier
   entry's cover-and-redraw operations are registered and unapplied; the
   operations registered at any time are those of the current entry, one for
   each rectangle handled so far, and the page text the next search reads is
   the text left by applying them. *)
C17_ApplyBeforeNextSearch ==
    /\ (op = "pdf" /\ pc = "search") => annots = <<>>
    /\ (op = "pdf" /\ pc = "annot") =>
          /\ Len(annots) = ii - 1
          /\ \A k \in 1..Len(annots) :
                annots[k] = [rect |-> instances[k], text |-> repl[ei].replacement]
    /\ (op = "pdf" /\ pc = "search") =>
          /\ pages[pn] = IncrementalText(pages0[pn], ei - 1)
          /\ \A n \in 1..Len(plog) : plog[n].entry < ei
          /\ \A n \in 1..Len(plog) : \A m \in 1..Len(plog) :
                n < m => plog[n].entry < plog[m].entry

\* the second entry is searched on a page the first entry's two redactions changed
C17_Witness ==
    /\ op = "pdf"
    /\ pc = "annot"
    /\ ei = 2
    /\ plog # <<>>
    /\ plog[1].entry = 1
    /\ Len(plog[1].hits) = 2
    /\ pages[pn] # pages0[pn]


-----------------------------------------------------------------------------
\* an entry with a non-empty original and a replacement
WellFormed(r) == r.original # Missing /\ r.original # <<>> /\ r.replacement # Missing

\* the list has reached the splicer or the page loop
ListInUse == pc \in {"para", "loop", "returned", "counted", "search", "annot"}

Times(q, r) == Cardinality({k \in 1..Len(q) : q[k] = r})

(* C11 as stated: when the list is built from the raw candidates, every entry
   with an empty original or a missing replacement is dropped, so every entry
   that reaches the splicer or the page loop has a non-empty original and a
   replacement, and the remaining entries are all kept. *)
C11_MalformedEntriesDropped ==
    ListInUse =>
        /\ \A k \in 1..Len(repl) : WellFormed(repl[k])
        /\ \A k \in 1..Len(raw) :
              WellFormed(raw[k]) => Times(repl, raw[k]) = Times(raw, raw[k])

-----------------------------------------------------------------------------
Returned == pc = "done"
Raised == pc = "failed"

\* every entry has been searched in every container that has fragments, on every page
AllTried ==
    /\ op = "docx" =>
          \A p \in 1..Len(doc) : doc[p] # <<>> =>
              \A k \in 1..Len(repl) : <<p, k>> \in tried
    /\ op = "pdf" =>
          \A p \in 1..Len(pages) : \A k \in 1..Len(repl) : <<p, k>> \in tried

\* a step in which an exception leaves the sanitize function
Aborts ==
    \/ OpenRaises
    \/ SortedRaises
    \/ SpliceRaises
    \/ SearchRaises
    \/ AddRedactAnnotRaises
    \/ ApplyRedactionsRaises

(* C12: a sanitize call has two outcomes. It returns a document, and then
   every entry of the list has been tried on every container and page; or it
   raises, and then it never returns a document: a step in which a library
   call or an entry fails part-way ends the call as failed, and a failed call
   stays failed. *)
C12_ReturnsWholeOrRaises ==
    /\ [](Returned => AllTried)
    /\ [][Aborts => (pc' = "failed" /\ ~Returned')]_vars
    /\ [][Raised => pc' = "failed"]_vars
    /\ [][Returned => pc' = "done"]_vars

\* a call has raised after it had changed part of the document
C12_Witness ==
    /\ Raised
    /\ tried # {}
    /\ doc # doc0 \/ pages # pages0

-----------------------------------------------------------------------------
\* every entry of the list has its original as replacement
IdentityPass ==
    /\ op = "docx"
    /\ pc = "returned"
    /\ repl # <<>>
    /\ \A k \in 1..Len(repl) : repl[k].original = repl[k].replacement

\* every place of the input text where an original matches holds it letter for letter
ExactOnly ==
    \A k \in 1..Len(repl) :
        \A s \in MatchStarts(PatternOf(impl, repl[k].original), repl[k].original, InText) :
            Slice(InText, s, s + Len(repl[k].original)) = repl[k].original

(* C16 as stated: after the splicer pass with an entry whose replacement equals
   its original, every fragment of the container has the text it had before. *)
C16_IdentityEntryNoChange ==
    IdentityPass => \A k \in 1..Len(CurRuns) : CurRuns[k].text = doc0[pi][k].text

(* C16, amended: after the splicer pass with entries whose replacement equals
   their original, the container's concatenated text is the text it had before
   up to letter case, and is exactly that text when every match in it holds the
   original letter for letter; the fragments are as many as before and keep
   their style handles (the text of a match that spans fragments moves into
   the first of them). *)
C16_IdentityEntryKeepsText ==
    IdentityPass =>
        /\ Lower(CurText) = Lower(InText)
        /\ ExactOnly => CurText = InText
        /\ Len(CurRuns) = Len(doc0[pi])
        /\ \A k \in 1..Len(CurRuns) : CurRuns[k].style = doc0[pi][k].style

\* an identity entry has been spliced up to the bound, and the text now differs
\* from the input in letter case
C16_Witness ==
    /\ IdentityPass
    /\ hit # {}
    /\ CurText # InText
    /\ Lower(CurText) = Lower(InText)

-----------------------------------------------------------------------------
(* C18 as stated: when registering the cover-and-redraw operation fails for one
   rectangle, only that rectangle is passed over: the loop goes on with the
   next rectangle of the same entry on the same page with everything
   registered so far kept, and the call does not fail. *)
C18_FailedRegistrationSkipsOneRectangle ==
    [][skipped' # skipped =>
          /\ pc' = "annot"
          /\ ii' = ii + 1
          /\ annots' = annots
          /\ instances' = instances
          /\ ei' = ei
          /\ pn' = pn
          /\ pages' = pages]_vars

-----------------------------------------------------------------------------
\* the fragments of a paragraph in document order, those inside hyperlinks included
RECURSIVE Flatten(_)
Flatten(c) ==
    IF c = <<>> THEN <<>>
    ELSE (CASE Head(c).tag = "r" -> <<[text |-> Head(c).text, style |-> Head(c).style]>>
            [] Head(c).tag = "hyperlink" -> Head(c).kids
            [] OTHER -> <<>>) \o Flatten(Tail(c))

\* the children with every hyperlink replaced, where it stands, by its runs
RECURSIVE Expand(_)
Expand(c) ==
    IF c = <<>> THEN <<>>
    ELSE (IF Head(c).tag = "hyperlink"
          THEN [k \in 1..Len(Head(c).kids) |-> RunElem(Head(c).kids[k])]
          ELSE <<Head(c)>>) \o Expand(Tail(c))

HasHyperlink(c) == \E k \in 1..Len(c) : c[k].tag = "hyperlink"

\* the visible text of the current paragraph, and of the paragraph as passed in
VisibleText == FullText(Flatten(Children(wrap[pi], doc[pi])))
VisibleRuns0 == Flatten(Children(wrap0[pi], doc0[pi]))

(* C19 as stated: hyperlink unwrapping runs on every container before the
   splicer enumerates its fragments, so while the splicer works on a container
   no fragment of it is inside a hyperlink, and when it returns the visible
   text is what the splicer makes of all the container's fragments, those that
   were inside hyperlinks included. *)
C19_HyperlinkedTextRewritten ==
    (op = "docx" /\ pc \in {"loop", "returned"}) =>
        /\ ~HasHyperlink(wrap[pi])
        /\ pc = "returned" =>
              VisibleText = FullText(ApplyReplacementsToParagraph(impl, VisibleRuns0, repl))

-----------------------------------------------------------------------------
(* C20: unwrapping the hyperlinks of a container puts the fragments of every
   hyperlink, in their order, where the hyperlink stood, keeps every other
   child where it was, leaves no hyperlink among the children, keeps the
   concatenated text, and changes nothing when applied again. Stated of the
   step in which src/new/PII/function.py enters a container. *)
C20_UnwrapInPlace ==
    [][(op = "docx" /\ impl = "NP" /\ pc = "para" /\ pc' # "para") =>
          LET before == Children(wrap[pi], doc[pi])
              after  == Children(wrap'[pi], doc'[pi])
          IN  /\ after = Expand(before)
              /\ ~HasHyperlink(after)
              /\ Flatten(after) = Flatten(before)
              /\ FullText(doc'[pi]) = FullText(Flatten(before))
              /\ UnwrapHyperlinks(after) = after]_vars

\* a paragraph that came with two hyperlinks, one of them holding two fragments,
\* has been unwrapped
C20_Witness ==
    /\ op = "docx"
    /\ impl = "NP"
    /\ pc \in {"loop", "returned"}
    /\ Cardinality({k \in 1..Len(wrap0[pi]) : wrap0[pi][k].tag = "hyperlink"}) = 2
    /\ \E k \in 1..Len(wrap0[pi]) : Len(wrap0[pi][k].kids) = 2
    /\ ~HasHyperlink(wrap[pi])
    /\ Len(doc[pi]) = 3

-----------------------------------------------------------------------------
\* splices of entry e logged on the current container
SplicesOf(e) == Cardinality({n \in 1..Len(log) : log[n].entry = e})

\* what is left of the splicer's work on the current container: the entries
\* not yet finished, each worth MaxIter + 1 steps, and the bodies left to the
\* current entry
SplicerRank ==
    IF pc = "loop"
    THEN (Len(repl) + 1 - ri) * (MaxIter + 1) + (MaxIter - iter) + 1
    ELSE 0

(* C14: the splicer terminates. An entry is spliced at most 50 times on a
   container; when the bound is reached the loop gives the entry up and goes
   on with the next entry without touching the container; and every step of
   the splicer on a container lowers SplicerRank, a natural number, so the
   splicer leaves the container after finitely many steps. *)
C14_SplicerTerminates ==
    /\ [](op = "docx" =>
            /\ iter <= MaxIter
            /\ SplicerRank \in Nat
            /\ \A e \in 1..Len(repl) : SplicesOf(e) <= MaxIter)
    /\ [][(pc = "loop" /\ ri <= Len(repl) /\ iter = MaxIter) =>
            (ri' = ri + 1 /\ iter' = 0 /\ doc' = doc /\ pc' = "loop")]_vars
    /\ [][pc = "loop" => SplicerRank' < SplicerRank]_vars

\* an entry whose replacement holds its original was given up after 50 splices,
\* a later entry was spliced after it, and the call came to its end
C14_Witness ==
    /\ op = "docx"
    /\ pc = "done"
    /\ \E e \in hit :
          /\ SplicesOf(e) = MaxIter
          /\ \E n \in 1..Len(log) : log[n].entry > e

-----------------------------------------------------------------------------
(* C21 as stated: for an entry whose original is a short all-uppercase token
   the page loop keeps, of the rectangles the search returned, only those whose
   text is the original letter for letter, so no rectangle over a lower-case
   or mixed-case occurrence is redacted; for every other entry all returned
   rectangles are kept. *)
C21_ShortCapsRectanglesExact ==
    (op = "pdf" /\ pc = "annot") =>
        LET o == repl[ei].original
            t == pages[pn]
        IN  IF NeedsWordBoundary(o)
            THEN \A k \in 1..Len(instances) :
                     Slice(t, instances[k][1], instances[k][2]) = o
            ELSE instances = SearchFor(t, o)

-----------------------------------------------------------------------------
\* two e-mail addresses that are equal after lower-casing and removing the dots
\* in front of the "@"
SameAddress(a, b) == StripDotsBeforeAt(Lower(a)) = StripDotsBeforeAt(Lower(b))

(* C22 as stated: the safety net takes two e-mail addresses that are equal
   after lower-casing and removing the dots before the "@" for the same covered
   entity: it appends no e-mail address that equals, in that sense, the
   original of an entry the list already held. *)
C22_DotVariantsCovered ==
    (op = "net" /\ call = 2) =>
        \A i \in Appended :
            first[i].type = "email" =>
                \A k \in 1..Len(given) : ~SameAddress(first[i].original, given[k].original)

-----------------------------------------------------------------------------
(* C23 as stated: every entry the safety net appends carries a fresh
   identifier: its replacement differs from the replacement of every entry the
   list already held for another original, and from the replacement of every
   other appended entry. *)
C23_FreshIdentifiers ==
    (op = "net" /\ call = 2) =>
        \A i \in Appended :
            /\ \A k \in 1..Len(given) :
                  given[k].original # first[i].original
                      => given[k].replacement # first[i].replacement
            /\ \A j \in Appended : j # i => first[j].replacement # first[i].replacement

-----------------------------------------------------------------------------
\* entries of the list the safety net was given whose type is one of types
GivenOfKind(types) == Cardinality({k \in 1..Len(given) : given[k].type \in types})

\* the appended entry at i is the n-th appended entry of its type
RankAmongAppended(i) ==
    Cardinality({j \in Appended : j <= i /\ first[j].type = first[i].type})

(* C24: the numbering of the safety net goes on from the per-kind counts. With
   E, P and D the numbers of entries of kind email, phone and id in the list
   passed in, the k-th appended e-mail gets person_(E+k)@example.com, the k-th
   appended phone "+00 00 000 " and P+k padded with zeros to 4 digits, the k-th
   appended id "ID_" and D+k padded to 6 digits, in the order of discovery. *)
C24_NumberingContinues ==
    (op = "net" /\ call = 2) =>
        \A i \in Appended :
            /\ first[i].type \in {"email", "phone", "id_number"}
            /\ first[i].type = "email" =>
                  first[i].replacement =
                      EmailReplacement(GivenOfKind({"email"}) + RankAmongAppended(i))
            /\ first[i].type = "phone" =>
                  first[i].replacement =
                      PhoneReplacement(GivenOfKind({"phone"}) + RankAmongAppended(i))
            /\ first[i].type = "id_number" =>
                  first[i].replacement =
                      IdReplacement(GivenOfKind({"id_number", "nic", "passport", "ssn"})
                                    + RankAmongAppended(i))

\* the list held one phone and one id; the call appended a second phone and a
\* second id, numbered 2
C24_Witness ==
    /\ op = "net"
    /\ call = 2
    /\ GivenOfKind({"phone"}) = 1
    /\ GivenOfKind({"nic"}) = 1
    /\ \E i, j \in Appended :
          /\ first[i].replacement =
                <<"+", "0", "0", " ", "0", "0", " ", "0", "0", "0", " ", "0", "0", "0", "2">>
          /\ first[j].replacement = <<"I", "D", "_", "0", "0", "0", "0", "0", "2">>

-----------------------------------------------------------------------------
\* the list in use without its entries whose original is empty
WithoutEmptyOriginals == SelectSeq(repl, LAMBDA r : r.original # <<>>)

(* C28 as stated: an entry whose original is the empty string never changes a
   document. When a container has been processed (primary pass and, where it
   exists, fallback pass) with a list that holds such an entry, its fragments
   have the texts they would have without that entry, and the replacement
   count is the count without it. *)
C28_EmptyOriginalNoEffect ==
    ( /\ op = "docx"
      /\ pc = "counted"
      /\ \E k \in 1..Len(repl) : repl[k].original = <<>>
      /\ \A k \in 1..Len(repl) : repl[k].original # Missing /\ repl[k].replacement # Missing )
    => LET expected == ProcessParagraph(impl, doc0[pi], WithoutEmptyOriginals)
       IN  /\ doc[pi] = expected.runs
           /\ count = expected.made

-----------------------------------------------------------------------------
(* C29: the fallback pass runs on a container only when the primary pass
   applied no replacement to it, and with originals that are not empty it then
   finds nothing: the step from the return of the primary pass to the count of
   the container changes no fragment and leaves the count as it is, so the
   count of a container is the number of splices of the primary pass. *)
C29_FallbackFindsNothing ==
    /\ [][(op = "docx" /\ pc = "returned" /\ pc' = "counted") =>
             (doc' = doc /\ count' = count)]_vars
    /\ [](op = "docx" /\ pc = "counted" => count = Len(log))

\* the fallback pass of src/function_app.py has run on a container that has text,
\* with a list that has entries
C29_Witness ==
    /\ op = "docx"
    /\ impl = "FA"
    /\ pc = "counted"
    /\ count = 0
    /\ repl # <<>>
    /\ Len(doc[pi]) >= 2
    /\ FullText(doc[pi]) # <<>>

-----------------------------------------------------------------------------
\* the other splicer
OtherImpl == IF impl = "NP" THEN "FA" ELSE "NP"

(* C30: the two splicers agree on their common domain. For a container
   without hyperlinks and a longest-first list none of whose originals is a
   short all-uppercase token, when _apply_replacements_to_paragraph of one file
   returns, every fragment has the text, and the count the value, that the
   function of the other file gives for the same container and list. *)
C30_SplicersAgree ==
    ( /\ op = "docx"
      /\ pc = "returned"
      /\ \A k \in 1..Len(repl) : ~IsShortCapsToken(repl[k].original) )
    => /\ doc[pi] = ApplyReplacementsToParagraph(OtherImpl, doc0[pi], repl)
       /\ count = ReplacementCount(OtherImpl, doc0[pi], repl)

\* a splicer has returned from a container on which it spliced twice, once across
\* fragments, with a list of two entries
C30_Witness ==
    /\ op = "docx"
    /\ pc = "returned"
    /\ Len(repl) = 2
    /\ \A k \in 1..Len(repl) : ~IsShortCapsToken(repl[k].original)
    /\ count >= 2
    /\ \E n \in 1..Len(log) : log[n].span >= 2
    /\ doc[pi] = ApplyReplacementsToParagraph(OtherImpl, doc0[pi], repl)

-----------------------------------------------------------------------------
(* C27 as stated: the page redaction engine produces its output document only
   after metadata, scripts, attached files and hidden text have been stripped,
   and the stripping step runs after all entries have been processed on all
   pages, never before or between entries. *)
C27_StrippedBeforeOutput ==
    /\ []((op = "pdf" /\ pc = "done" /\ raw # <<>>) => scrubbed)
    /\ [][(~scrubbed /\ scrubbed') =>
             /\ pn = Len(pages)
             /\ ei > Len(repl)
             /\ annots = <<>>
             /\ pages' = pages]_vars

-----------------------------------------------------------------------------
(* The appearance of the redrawn text *)

\* the spans that overlap the rectangle of the hit
OverlappingSpans == { k \in 1..Len(spans) : ~IsEmpty(Intersection(spans[k].bbox, inst_rect)) }

OverlapArea(k) == Area(Intersection(spans[k].bbox, inst_rect))

\* C25: every cover-and-redraw operation registered for a matched rectangle has
\* a white fill and draws the replacement text of the entry left-aligned, in the
\* standard font mapped from a span of greatest overlap with the rectangle, in
\* that span's size and colour; Helvetica, 11 pt, black only when no span
\* overlaps the rectangle
C25_RedrawKeepsAppearance ==
    (op = "redraw" /\ pc = "registered") =>
        /\ redact.fill = <<255, 255, 255>>
        /\ redact.align = "left"
        /\ redact.text = repl[1].replacement
        /\ IF OverlappingSpans = {}
           THEN /\ redact.fontname = "helv"
                /\ redact.fontsize = 11
                /\ redact.text_color = <<0, 0, 0>>
           ELSE \E k \in OverlappingSpans :
                    /\ \A j \in OverlappingSpans : OverlapArea(j) <= OverlapArea(k)
                    /\ redact.fontname = MapToBase14Font(spans[k].font, spans[k].flags)
                    /\ redact.fontsize = spans[k].size
                    /\ redact.text_color = ColorOf(spans[k].color)

Base14Fonts ==
    { "helv", "heit", "hebo", "hebi", "cour", "coit", "cobo", "cobi",
      "tiro", "tiit", "tibo", "tibi", "symb", "zadb" }

CourierFaces == <<"cour", "cobo", "coit", "cobi">>
TimesFaces == <<"tiro", "tibo", "tiit", "tibi">>
HelveticaFaces == <<"helv", "hebo", "heit", "hebi">>

\* regular, bold, italic or bold-italic of a family
Variant(faces, bold, italic) ==
    faces[1 + (IF bold THEN 1 ELSE 0) + (IF italic THEN 2 ELSE 0)]

NamedBold(fn) ==
    \/ Contains(fn, <<"b", "o", "l", "d">>)
    \/ Contains(fn, <<"b", "l", "a", "c", "k">>)
    \/ Contains(fn, <<"h", "e", "a", "v", "y">>)

NamedItalic(fn) ==
    \/ Contains(fn, <<"i", "t", "a", "l", "i", "c">>)
    \/ Contains(fn, <<"o", "b", "l", "i", "q", "u", "e">>)

\* C26 as the specification words it: the mapping returns one of the 14 standard
\* faces and takes the family from the font name: "symbol" or "zapf" gives a
\* symbol face, "courier" or "mono" a Courier face, "times", "serif" or "georgia"
\* a Times face, every other name a Helvetica face; in the three text families
\* the variant is the one the bold and italic indications select
C26_FamilyFromName ==
    (op = "map" /\ pc = "map_done") =>
        LET fn == LowerName(font_name)
            bold == NamedBold(fn) \/ HasBit(flags, 16)
            italic == NamedItalic(fn) \/ HasBit(flags, 2)
            symbolName == \/ Contains(fn, <<"s", "y", "m", "b", "o", "l">>)
                          \/ Contains(fn, <<"z", "a", "p", "f">>)
            courierName == \/ Contains(fn, <<"c", "o", "u", "r", "i", "e", "r">>)
                           \/ Contains(fn, <<"m", "o", "n", "o">>)
            timesName == \/ Contains(fn, <<"t", "i", "m", "e", "s">>)
                         \/ Contains(fn, <<"s", "e", "r", "i", "f">>)
                         \/ Contains(fn, <<"g", "e", "o", "r", "g", "i", "a">>)
        IN  /\ fontname \in Base14Fonts
            /\ symbolName => fontname \in {"symb", "zadb"}
            /\ courierName => fontname = Variant(CourierFaces, bold, italic)
            /\ timesName => fontname = Variant(TimesFaces, bold, italic)
            /\ ~(symbolName \/ courierName \/ timesName) =>
                   fontname = Variant(HelveticaFaces, bold, italic)

\* C26 as the code has it: the mapping returns one of the 14 standard faces; the
\* family is Courier when the lower-cased name contains "courier", "mono",
\* "consolas" or "menlo" or the monospace bit (8) is set; otherwise Times when it
\* contains "times", "serif", "georgia" or "garamond" or the serif bit (4) is
\* set; otherwise symb when it contains "symbol"; otherwise zadb when it contains
\* "zapf" or "dingbat"; otherwise Helvetica. In the three text families the
\* variant is bold when the name contains "bold", "black" or "heavy" or bit 16
\* is set, and italic when it contains "italic" or "oblique" or bit 2 is set
C26_FaceByNameAndFlags ==
    (op = "map" /\ pc = "map_done") =>
        LET fn == LowerName(font_name)
            bold == NamedBold(fn) \/ HasBit(flags, 16)
            italic == NamedItalic(fn) \/ HasBit(flags, 2)
            courier == \/ HasBit(flags, 8)
                       \/ Contains(fn, <<"c", "o", "u", "r", "i", "e", "r">>)
                       \/ Contains(fn, <<"m", "o", "n", "o">>)
                       \/ Contains(fn, <<"c", "o", "n", "s", "o", "l", "a", "s">>)
                       \/ Contains(fn, <<"m", "e", "n", "l", "o">>)
            times == \/ HasBit(flags, 4)
                     \/ Contains(fn, <<"t", "i", "m", "e", "s">>)
                     \/ Contains(fn, <<"s", "e", "r", "i", "f">>)
                     \/ Contains(fn, <<"g", "e", "o", "r", "g", "i", "a">>)
                     \/ Contains(fn, <<"g", "a", "r", "a", "m", "o", "n", "d">>)
            symbolName == Contains(fn, <<"s", "y", "m", "b", "o", "l">>)
            zapfName == \/ Contains(fn, <<"z", "a", "p", "f">>)
                        \/ Contains(fn, <<"d", "i", "n", "g", "b", "a", "t">>)
        IN  /\ fontname \in Base14Fonts
            /\ courier => fontname = Variant(CourierFaces, bold, italic)
            /\ (~courier /\ times) => fontname = Variant(TimesFaces, bold, italic)
            /\ (~courier /\ ~times /\ symbolName) => fontname = "symb"
            /\ (~courier /\ ~times /\ ~symbolName /\ zapfName) => fontname = "zadb"
            /\ (~courier /\ ~times /\ ~symbolName /\ ~zapfName) =>
                   fontname = Variant(HelveticaFaces, bold, italic)

\* a name without a family keyword, mapped by its flags alone
C26_Witness ==
    /\ op = "map"
    /\ pc = "map_done"
    /\ font_name = <<"A", "r", "i", "a", "l">>
    /\ flags = 26
    /\ fontname = "cobi"

=============================================================================
